---- MODULE Spec2Model ----
(***************************************************************************)
(* Launch Supervisor (shlaunch, Mac flavour) and its client library        *)
(* (launch.c).  The Supervisor's main() is modelled statement group by     *)
(* statement group; every access to the shared Exchange is a step of its   *)
(* own, so that client calls interleave with the Control Loop exactly      *)
(* where they can in the program.                                          *)
(***************************************************************************)
EXTENDS Integers, FiniteSets, Sequences, TLC

(***************************************************************************)
(* Bounds of the model.                                                    *)
(***************************************************************************)
\* the heartbeat stops being incremented at this value
MaxCycles == 2
\* total number of launch_do calls made by all clients
MaxWrites == 2

(***************************************************************************)
(* Program constants.                                                      *)
(***************************************************************************)
LAUNCH_MASK == 65535
LAUNCH_FLAG_KILL_FIRST == 65536
KILL_WAIT_RETRIES == 20
KILL_WAIT_MILLIS == 250
IDLE_MILLIS == 100
\* sizeof(struct Exchange); any non-zero value serves, a fresh segment holds 0
ExchangeSize == 1

\* getpid() and getppid() of the Supervisor
ownPid == 10
parentPid == 11
\* the global _noKillPid; it keeps its initialiser in run mode
NoKillPidDefault == -1
RET_SUCCESS == 0
RET_ERROR == 1
RET_SHARED_MEMORY_ERROR == 2
RET_ACTIVATE_ERROR == 3
RET_ARGS_ERROR == 4
RET_BUILD_MISMATCH == 5
\* argv[1] of the Supervisor: missing, the compiled SHLAUNCH_BUILD, another string
ArgKinds == {"none", "build", "other"}
SHUTDOWN_WAIT_SECS == 10
\* msleep(2000) in wait_for_backend_exit, in seconds
WaitSleepSecs == 2
\* what shmget can find under SHARED_MEMORY_KEY when the Supervisor starts:
\* nothing, a segment of at least the 32 bytes exchange_reset asks for, or a
\* smaller one
StaleKinds == {"none", "sized", "tiny"}
\* exit codes of the Windows program
EXITCODE_SUCCESS == 0
EXITCODE_BAD_ARGS == 1
EXITCODE_ERROR == 2
EXITCODE_SERVICE_ERROR == 3
EXITCODE_SERVICE_REMOVAL_PENDING == 4
EXITCODE_SERVICE_MISSING == 6
EXITCODE_DATADIR_POINTER_ERROR == 7
SHUTDOWN_SIGNAL_TIMOUT_SECS == 10
\* exchange->launch = ctx->config.autoStart ? 0xffff : 0
InitialLaunchWord == 65535
\* PIDs of backends: the ones fork() can hand out, and the ones a backend
\* left over from a previous run can have
BackendPids == {31}
\* frontends (named like the backend executable) using the client library
\* the family processes that end by themselves once shutdown is requested
Leavers == BackendPids
Clients == {21, 22}
\* family processes of an earlier installation found running at the start
OldPids == {41}
\* launch words the clients submit: launch, kill only, kill then launch
Words == {1, LAUNCH_FLAG_KILL_FIRST, LAUNCH_FLAG_KILL_FIRST + 1}

VARIABLES
    exchange,       \* struct Exchange in the shared memory segment
    shmExists,      \* a segment is registered under SHARED_MEMORY_KEY
    pc,             \* position of the Supervisor in main()
    kill,           \* main's local: kill flag of the word read last
    launch,         \* main's local: launch code of the word read last
    srcPid,         \* main's local: launchProcessId read last
    exchgLaunch,    \* main's local: launch word read last
    cfg,            \* main's local: configuration loaded last
    retries,        \* kill_old_processes_and_wait's local
    killCaller,     \* call site of the running kill_old_processes_and_wait
    killRet,        \* value the latest kill_old_processes_and_wait returned
    ret,            \* main's local: the exit code
    waited,         \* wait_for_backend_exit: seconds slept since it was called
    attempt,        \* exchange_open's local
    staleRegion,    \* a segment left under SHARED_MEMORY_KEY by an earlier process
    terminate,      \* shl->terminate
    shlGlobal,      \* the global _shl is set
    procs,          \* PIDs of the running processes with a family name
    stubborn,       \* PIDs of processes that stay in the table after SIGKILL
    sysctlFails,    \* the process listing of enum_processes can fail
    exeExists,      \* access() found the Supervisor's executable on disk
    plistExists,    \* the service descriptor is on disk
    argv1,          \* the first argument main was called with
    chandle,        \* per client: state of its process and LaunchHandle
    cyc0,           \* per client: launch_open's local cycles
    cdo,            \* per client: word of a launch_do between its two stores
    writes,         \* number of launch_do calls so far
    lastKill,       \* the latest kill_old_processes pass: argument, err of
                    \* enum_processes, PIDs it passed to kill(), value returned
    launchIntact,   \* history: exchange.launch is as launch_do stored it
    wordWriter,     \* history: client whose launch_do wrote the word in exchange.launch
    srcWriter,      \* history: client that wrote the word main read last
    writtenThisIter, \* history: a client wrote launch since the iteration began
    sigterm,        \* history: a SIGTERM arrived after signal(SIGTERM, on_terminate)
    argv2,          \* the second argument main was called with
    argv3,          \* the third argument main was called with, as atoi reads it
    cfgFile,        \* the lines of the configuration file, for the loads taken alone
    wpc,            \* Windows: position of the process in _tmain and svc_main
    argvW,          \* Windows: argv[1..] of _tmain
    argi,           \* Windows: _tmain's local i
    exitcode,       \* Windows: _tmain's local exitcode, the value it returns
    executed,       \* Windows: the service commands _tmain has called, in order,
                    \* each with its exit code and the answer of the SCM
    noAutostart,    \* Windows: svc_main is started with --no-autostart
    ctxSet,         \* Windows: the global _ctx is set
    handlerOn,      \* Windows: ctrl_handler is registered with the SCM
    evtExit,        \* Windows: ctx->evtExit: not created, reset or signalled
    svcStatus,      \* Windows: dwCurrentState reported last by update_status
    config,         \* Windows: ctx->config
    wlaunch,        \* Windows: svc_main's local launch
    wstatus,        \* Windows: svc_main's local status
    wwaited,        \* Windows: seconds since the shutdown flag was set
    ctrl,           \* Windows: the control command ctrl_handler got last
    tpc,            \* Windows: position of the test client
    tseen,          \* Windows: field the test client's comparison has read
    twrites,        \* Windows: number of launch words the test client stored
    tlate           \* Windows history: the word in exchange.launch was stored
                    \* by the test client after size had been published

loopLocals == <<kill, launch, srcPid, exchgLaunch>>
killLocals == <<retries, killCaller, killRet>>
callLocals == <<waited, attempt>>
sigVars == <<terminate, shlGlobal>>
envVars == <<exeExists, plistExists, stubborn, sysctlFails, staleRegion, argv1>>
cliVars == <<chandle, cyc0, cdo, writes>>
histVars == <<launchIntact, wordWriter, srcWriter, writtenThisIter>>
extVars == <<sigterm, argv2, argv3, cfgFile>>

winVars == <<wpc, argvW, argi, exitcode, executed, noAutostart, ctxSet, handlerOn,
            evtExit, svcStatus, config, wlaunch, wstatus, wwaited, ctrl, tpc,
            tseen, twrites, tlate>>

\* everything of the Supervisor's own state but pc
supVars == <<loopLocals, cfg, killLocals, ret, callLocals>>

\* the variables of the Mac programs but the ones the platforms share
macVars == <<pc, supVars, sigVars, envVars, cliVars, lastKill, histVars, extVars>>

vars == <<exchange, shmExists, procs, macVars, winVars>>

(***************************************************************************)
(* Bit operations on launch words (non-negative 32-bit values).            *)
(***************************************************************************)
\* w & LAUNCH_MASK
AndLaunchMask(w) == w % (LAUNCH_MASK + 1)
\* w & LAUNCH_FLAG_KILL_FIRST
AndKillFirst(w) == ((w \div LAUNCH_FLAG_KILL_FIRST) % 2) * LAUNCH_FLAG_KILL_FIRST
\* w & ~LAUNCH_FLAG_KILL_FIRST
AndNotKillFirst(w) == w - AndKillFirst(w)
\* w & ~LAUNCH_MASK
AndNotLaunchMask(w) == w - AndLaunchMask(w)

\* a freshly created segment is zero-filled; identity stands for dataDir and build
ZeroExchange_shutdown ==
    [size |-> 0, processId |-> 0, cycles |-> 0, status |-> 0,
     launchProcessId |-> 0, launch |-> 0, shutdown |-> 1,
     identity |-> FALSE]

ZeroExchange ==
    [size |-> 0, processId |-> 0, cycles |-> 0, status |-> 0,
     launchProcessId |-> 0, launch |-> 0, shutdown |-> 0,
     identity |-> FALSE]

\* contents the configuration file can have; "none": no line with that key
CfgFiles == [autostart : {"TRUE", "none"}, backend : {"TRUE", "FALSE", "none"}]

\* what the loads find in a file that is missing or cannot be read
NoCfgFile == [autostart |-> "none", backend |-> "none"]

\* every content of the two lines
AllCfgFiles == [autostart : {"TRUE", "FALSE", "none"}, backend : {"TRUE", "FALSE", "none"}]

\* _cfgDefault
cfgDefault == [autoStart |-> FALSE, backend |-> TRUE]

(***************************************************************************)
(* cfg_load: defaults first, then every key found in the file.             *)
(***************************************************************************)
cfg_load_zeroed(file) ==
    [autoStart |-> file.autostart = "TRUE",
     backend   |-> file.backend = "TRUE"]

cfg_load(file) ==
    [autoStart |-> IF file.autostart = "none" THEN cfgDefault.autoStart
                   ELSE file.autostart = "TRUE",
     backend   |-> IF file.backend = "none" THEN cfgDefault.backend
                   ELSE file.backend = "TRUE"]

(***************************************************************************)
(* kill_old_processes: the PIDs find_handler collects, and the ones of     *)
(* them the loop over fpctx.pids passes to kill().                         *)
(***************************************************************************)
\* fpctx.pids after enum_processes(find_handler): empty if sysctl failed
find_handler(table, enumOk) == IF enumOk THEN table ELSE {}

\* the global _noKillPid: atoi(argv[3]) in an activation, else its initial -1
NoKillPid == IF argv2 = "--activate" THEN argv3 ELSE NoKillPidDefault

KillTargets_noArg(found, noKillPid) ==
    {p \in found : p # ownPid /\ p # parentPid /\ p # NoKillPid}

KillTargets(found, noKillPid) ==
    {p \in found : p # ownPid /\ p # parentPid /\ p # NoKillPid
                   /\ p # noKillPid}

\* the return value: fpctx.count less the excluded entries
kill_old_processes_found(found, noKillPid) == Cardinality(found)

kill_old_processes_killed(found, noKillPid) ==
    Cardinality(KillTargets(found, noKillPid) \ stubborn)

kill_old_processes(found, noKillPid) == Cardinality(KillTargets(found, noKillPid))

(***************************************************************************)
(* launch_backend's return statement; res is its local result.             *)
(***************************************************************************)
launch_backend(res) == RET_SUCCESS

\* the value main stores in status for launch_backend's return value
StatusOf_inverted(r) == IF r # 0 THEN 1 ELSE 0

StatusOf(r) == IF r # 0 THEN 0 ELSE 1

\* cycles++; the values reached stay far below the 2^32 of the uint32_t
IncrCycles_two(c) == c + 2

IncrCycles_none(c) == c

IncrCycles(c) == c + 1

\* the loop condition, while (!shl->terminate)
LoopCondition_always(term) == TRUE

LoopCondition(term) == ~term

\* the statement after the kill section of the loop body
AfterKill_noLaunch == "read_src"

AfterKill == IF launch # 0 THEN "cfg_load" ELSE "read_src"

\* no Windows program runs
WinNone ==
    /\ wpc = "none"
    /\ argvW = <<>>
    /\ argi = 0
    /\ exitcode = 0
    /\ executed = <<>>
    /\ noAutostart = FALSE
    /\ ctxSet = FALSE
    /\ handlerOn = FALSE
    /\ evtExit = "null"
    /\ svcStatus = "none"
    /\ config = [autoStart |-> FALSE, backend |-> FALSE]
    /\ wlaunch = 0
    /\ wstatus = 0
    /\ wwaited = 0
    /\ ctrl = "none"
    /\ tpc = "none"
    /\ tseen = [field |-> "none", value |-> 0]
    /\ twrites = 0
    /\ tlate = FALSE

Init ==
    /\ exchange = ZeroExchange
    /\ shmExists = FALSE
    /\ pc = "kill_pass"
    /\ kill = 0
    /\ launch = 0
    /\ srcPid = 0
    /\ exchgLaunch = 0
    /\ cfg = cfgDefault
    /\ retries = KILL_WAIT_RETRIES
    /\ killCaller = "startup"
    /\ killRet = RET_SUCCESS
    /\ ret = RET_ERROR
    /\ waited = 0
    /\ attempt = 0
    /\ staleRegion \in StaleKinds
    /\ terminate = FALSE
    /\ sigterm = FALSE
    /\ argv2 = "none"
    /\ argv3 = 0
    /\ cfgFile = NoCfgFile
    /\ shlGlobal = FALSE
    /\ procs \in {{ownPid, parentPid} \cup S : S \in SUBSET BackendPids}
    /\ stubborn = {}
    /\ sysctlFails = FALSE
    /\ exeExists = TRUE
    /\ plistExists = TRUE
    /\ argv1 = "build"
    /\ chandle = [c \in Clients |-> "unborn"]
    /\ cyc0 = [c \in Clients |-> 0]
    /\ cdo = [c \in Clients |-> 0]
    /\ writes = 0
    /\ lastKill = [noKillPid |-> 0, err |-> 0, pids |-> {}, result |-> 0]
    /\ launchIntact = TRUE
    /\ wordWriter = 0
    /\ srcWriter = 0
    /\ writtenThisIter = FALSE
    /\ WinNone

(***************************************************************************)
(* The Supervisor: main().                                                 *)
(***************************************************************************)
\* the exit code of a call that the argument checks end
ArgsExit_swapped(a) == IF a = "none" THEN RET_BUILD_MISMATCH ELSE RET_ARGS_ERROR

ArgsExit(a) == IF a = "none" THEN RET_ARGS_ERROR ELSE RET_BUILD_MISMATCH

\* main up to the activation test: argc < 2 and the comparison of argv[1]
\* with SHLAUNCH_BUILD return at once; else ret = RET_ERROR and the kill of
\* the old processes is next
Main ==
    /\ pc = "main"
    /\ IF argv1 # "build"
       THEN /\ ret' = ArgsExit(argv1)
            /\ procs' = procs \ {ownPid}
            /\ pc' = "exited"
       ELSE IF argv2 = "--activate"
            THEN /\ ret' = ret
                 /\ procs' = procs
                 /\ pc' = "activate"
            ELSE /\ ret' = RET_ERROR
                 /\ procs' = procs
                 /\ pc' = "kill_pass"
    /\ UNCHANGED <<exchange, shmExists, loopLocals, cfg, killLocals, callLocals,
                   sigVars, envVars, cliVars, lastKill, histVars>>
    /\ UNCHANGED <<winVars, extVars>>

\* the retry test of kill_old_processes_and_wait, --retries <= 0
BudgetExhausted_late(r) == r - 1 < 0

BudgetExhausted(r) == r - 1 <= 0

\* one round of kill_old_processes_and_wait: a pass of kill_old_processes,
\* then return on a zero count, else waitpid, msleep and the retry test
KillPass ==
    /\ pc = "kill_pass"
    /\ \E enumOk \in (IF sysctlFails THEN BOOLEAN ELSE {TRUE}) :
         LET noKillPid == IF killCaller = "startup" THEN NoKillPid
                          ELSE IF killCaller = "activate" THEN 0
                          ELSE srcPid
             found == find_handler(procs, enumOk)
             targets == KillTargets(found, noKillPid)
             count == kill_old_processes(found, noKillPid)
             gone == targets \ stubborn
             back == IF killCaller = "startup" THEN "exchange_open"
                     ELSE IF killCaller = "activate" THEN "activate_killed"
                     ELSE "clear_kill"
         IN /\ procs' = procs \ gone
            /\ chandle' = [c \in Clients |-> IF c \in gone THEN "gone" ELSE chandle[c]]
            /\ cyc0' = [c \in Clients |-> IF c \in gone THEN 0 ELSE cyc0[c]]
            /\ cdo' = [c \in Clients |-> IF c \in gone THEN 0 ELSE cdo[c]]
            /\ lastKill' = [noKillPid |-> noKillPid,
                            err |-> IF enumOk THEN 0 ELSE -1,
                            pids |-> targets, result |-> count]
            /\ IF count = 0
               THEN /\ pc' = back
                    /\ retries' = KILL_WAIT_RETRIES
                    /\ killRet' = RET_SUCCESS
               ELSE IF BudgetExhausted(retries)
                    THEN /\ pc' = back
                         /\ retries' = KILL_WAIT_RETRIES
                         /\ killRet' = RET_ERROR
                    ELSE /\ pc' = "kill_pass"
                         /\ retries' = retries - 1
                         /\ killRet' = killRet
    /\ UNCHANGED <<exchange, shmExists, loopLocals, cfg, killCaller, ret, callLocals, sigVars,
                   envVars, writes, histVars>>
    /\ UNCHANGED <<winVars, extVars>>

\* exchange_open: !attempt && (errno == EEXIST || errno == EINVAL)
MayReset_always(att, stale) == stale # "none"

MayReset(att, stale) == att = 0 /\ stale # "none"

\* exchange_open, one turn of its for loop: shmget(IPC_CREAT | IPC_EXCL); a
\* segment under the key makes it fail with EEXIST, which on the first
\* attempt leads to exchange_reset
ExchangeOpen ==
    /\ pc = "exchange_open"
    /\ \E created \in (IF staleRegion = "none" THEN BOOLEAN ELSE {FALSE}) :
         IF created
         THEN /\ exchange' = ZeroExchange
              /\ shmExists' = TRUE
              /\ pc' = "shmat"
              /\ UNCHANGED <<ret, attempt>>
         ELSE /\ UNCHANGED <<exchange, shmExists>>
              /\ IF MayReset(attempt, staleRegion)
                 THEN pc' = "exchange_reset" /\ UNCHANGED <<ret, attempt>>
                 ELSE pc' = "cleanup" /\ ret' = RET_SHARED_MEMORY_ERROR
                      /\ attempt' = 0
    /\ UNCHANGED <<loopLocals, cfg, killLocals, waited, sigVars, procs, envVars,
                   cliVars, lastKill, histVars>>
    /\ UNCHANGED <<winVars, extVars>>

\* exchange_reset, called by exchange_open: shmget(key, 32, 0) does not find a
\* smaller segment and reports success; else shmctl(IPC_RMID) removes the
\* segment or fails, which is the shared memory error
ExchangeReset ==
    /\ pc = "exchange_reset"
    /\ \E removed \in BOOLEAN :
         IF staleRegion = "tiny"
         THEN /\ UNCHANGED <<staleRegion, ret>>
              /\ attempt' = attempt + 1
              /\ pc' = "exchange_open"
         ELSE IF removed
              THEN /\ staleRegion' = "none"
                   /\ attempt' = attempt + 1
                   /\ pc' = "exchange_open"
                   /\ ret' = ret
              ELSE /\ ret' = RET_SHARED_MEMORY_ERROR
                   /\ attempt' = 0
                   /\ pc' = "cleanup"
                   /\ UNCHANGED staleRegion
    /\ UNCHANGED <<exchange, shmExists, loopLocals, cfg, killLocals, waited, sigVars,
                   procs, exeExists, plistExists, stubborn, sysctlFails, argv1,
                   cliVars, lastKill, histVars>>
    /\ UNCHANGED <<winVars, extVars>>

\* shmat in exchange_open: on failure the new segment is removed again
Shmat ==
    /\ pc = "shmat"
    /\ \E ok \in BOOLEAN :
         IF ok
         THEN /\ ret' = RET_SUCCESS
              /\ pc' = "init_identity"
              /\ UNCHANGED shmExists
         ELSE /\ ret' = RET_SHARED_MEMORY_ERROR
              /\ shmExists' = FALSE
              /\ pc' = "cleanup"
    /\ attempt' = 0
    /\ UNCHANGED <<exchange, loopLocals, cfg, killLocals, waited, sigVars, procs,
                   envVars, cliVars, lastKill, histVars>>
    /\ UNCHANGED <<winVars, extVars>>

\* the stores to dataDir, build and processId
StoreIdentity_noPid(e) == [e EXCEPT !.identity = TRUE]

StoreIdentity(e) == [e EXCEPT !.identity = TRUE, !.processId = ownPid]

\* dataDir, build and processId are stored
InitIdentity ==
    /\ pc = "init_identity"
    /\ \E ok \in BOOLEAN :
         IF ok
         THEN /\ exchange' = StoreIdentity(exchange)
              /\ pc' = "set_size"
         ELSE /\ exchange' = exchange
              /\ pc' = "cleanup"
    /\ UNCHANGED <<shmExists, supVars, sigVars, procs, envVars, cliVars, lastKill,
                   histVars>>
    /\ UNCHANGED <<winVars, extVars>>

\* size = sizeof(struct Exchange)
SetSize ==
    /\ pc = "set_size"
    /\ exchange' = [exchange EXCEPT !.size = ExchangeSize]
    /\ pc' = "set_shl"
    /\ UNCHANGED <<shmExists, supVars, sigVars, procs, envVars, cliVars, lastKill,
                   histVars>>
    /\ UNCHANGED <<winVars, extVars>>

\* _shl = shl; srcPid = 0; kill = LAUNCH_FLAG_KILL_FIRST
SetShl ==
    /\ pc = "set_shl"
    /\ shlGlobal' = TRUE
    /\ srcPid' = 0
    /\ kill' = LAUNCH_FLAG_KILL_FIRST
    /\ pc' = "cfg_load0"
    /\ UNCHANGED <<exchange, shmExists, launch, exchgLaunch, cfg, killLocals, ret, callLocals,
                   terminate, procs, envVars, cliVars, lastKill, histVars>>
    /\ UNCHANGED <<winVars, extVars>>

\* launch = (-1 != _noKillPid) || (cfg.autoStart && cfg.backend)
InitialLaunch_autoStart(c) ==
    IF NoKillPidDefault # -1 \/ c.autoStart THEN 1 ELSE 0

InitialLaunch(c) ==
    IF NoKillPidDefault # -1 \/ (c.autoStart /\ c.backend) THEN 1 ELSE 0

\* the configuration at startup and the initial launch condition
CfgLoad0 ==
    /\ pc = "cfg_load0"
    /\ \E file \in CfgFiles : cfg' = cfg_load(file)
    /\ launch' = InitialLaunch(cfg')
    /\ pc' = "while"
    /\ UNCHANGED <<exchange, shmExists, kill, srcPid, exchgLaunch, killLocals, ret, callLocals,
                   sigVars, procs, envVars, cliVars, lastKill, histVars>>
    /\ UNCHANGED <<winVars, extVars>>

\* while (!shl->terminate)
While ==
    /\ pc = "while"
    /\ IF LoopCondition(terminate)
       THEN pc' = "incr" /\ writtenThisIter' = FALSE
       ELSE pc' = "swap_shutdown" /\ writtenThisIter' = writtenThisIter
    /\ UNCHANGED <<exchange, shmExists, supVars, sigVars, procs, envVars, cliVars,
                   lastKill, launchIntact, wordWriter, srcWriter>>
    /\ UNCHANGED <<winVars, extVars>>

\* shl->exchange->cycles++ and the snapshot for the log
Incr ==
    /\ pc = "incr"
    /\ exchange.cycles < MaxCycles
    /\ exchange' = [exchange EXCEPT !.cycles = IncrCycles(exchange.cycles)]
    /\ pc' = "access"
    /\ UNCHANGED <<shmExists, supVars, sigVars, procs, envVars, cliVars, lastKill,
                   histVars>>
    /\ UNCHANGED <<winVars, extVars>>

\* access(argv[0]): leave the loop if the executable is gone, else go on to
\* the kill section
unlink_keep(exists) == exists

unlink(exists) == FALSE

Access ==
    /\ pc = "access"
    /\ \E found \in BOOLEAN : exeExists' = found
    /\ IF ~exeExists'
       THEN /\ plistExists' = unlink(plistExists)
            /\ pc' = "swap_shutdown"
            /\ UNCHANGED killLocals
       ELSE /\ plistExists' = plistExists
            /\ IF kill # 0
               THEN /\ pc' = "kill_pass"
                    /\ retries' = KILL_WAIT_RETRIES
                    /\ killCaller' = "loop"
                    /\ killRet' = killRet
               ELSE /\ pc' = AfterKill
                    /\ UNCHANGED killLocals
    /\ UNCHANGED <<exchange, shmExists, loopLocals, cfg, ret, callLocals, sigVars, procs,
                   stubborn, sysctlFails, staleRegion, argv1, cliVars, lastKill,
                   histVars>>
    /\ UNCHANGED <<winVars, extVars>>

\* __sync_fetch_and_and(&launch, ~LAUNCH_FLAG_KILL_FIRST)
ClearKill ==
    /\ pc = "clear_kill"
    /\ exchange' = [exchange EXCEPT !.launch = AndNotKillFirst(exchange.launch)]
    /\ wordWriter' = IF exchange'.launch = 0 THEN 0 ELSE wordWriter
    /\ launchIntact' = (exchange'.launch = 0
                        \/ (launchIntact /\ exchange'.launch = exchange.launch))
    /\ pc' = AfterKill
    /\ UNCHANGED <<shmExists, supVars, sigVars, procs, envVars, cliVars, lastKill,
                   srcWriter, writtenThisIter>>
    /\ UNCHANGED <<winVars, extVars>>

\* if (cfg.backend) after cfg_load(shl, &cfg): the configuration the test
\* reads is the one just loaded
LaunchCfg_stale(old, new) == old

LaunchCfg(old, new) == new

\* cfg_load before the launch; the autostart line of the file is as at startup
CfgLoad ==
    /\ pc = "cfg_load"
    /\ \E file \in CfgFiles :
         /\ cfg_load(file).autoStart = cfg.autoStart
         /\ cfg' = cfg_load(file)
    /\ pc' = IF LaunchCfg(cfg, cfg').backend THEN "launch_backend" ELSE "clear_launch"
    /\ UNCHANGED <<exchange, shmExists, loopLocals, killLocals, ret, callLocals, sigVars, procs,
                   envVars, cliVars, lastKill, histVars>>
    /\ UNCHANGED <<winVars, extVars>>

\* status = launch_backend(shl); __sync_swap(&status, status ? 0 : 1)
LaunchBackend ==
    /\ pc = "launch_backend"
    /\ \E res \in {RET_SUCCESS, RET_ERROR} :
         /\ IF res = RET_SUCCESS
            THEN \E child \in BackendPids \ procs : procs' = procs \cup {child}
            ELSE procs' = procs
         /\ exchange' = [exchange EXCEPT !.status = StatusOf(launch_backend(res))]
    /\ pc' = "clear_launch"
    /\ UNCHANGED <<shmExists, supVars, sigVars, envVars, cliVars, lastKill,
                   histVars>>
    /\ UNCHANGED <<winVars, extVars>>

\* __sync_fetch_and_and(&launch, ~LAUNCH_MASK)
ClearLaunch ==
    /\ pc = "clear_launch"
    /\ exchange' = [exchange EXCEPT !.launch = AndNotLaunchMask(exchange.launch)]
    /\ wordWriter' = IF exchange'.launch = 0 THEN 0 ELSE wordWriter
    /\ launchIntact' = (exchange'.launch = 0
                        \/ (launchIntact /\ exchange'.launch = exchange.launch))
    /\ pc' = "read_src"
    /\ UNCHANGED <<shmExists, supVars, sigVars, procs, envVars, cliVars, lastKill,
                   srcWriter, writtenThisIter>>
    /\ UNCHANGED <<winVars, extVars>>

\* msleep, waitpid, then srcPid = shl->exchange->launchProcessId
ReadSrc ==
    /\ pc = "read_src"
    /\ srcPid' = exchange.launchProcessId
    /\ pc' = "read_launch"
    /\ UNCHANGED <<exchange, shmExists, kill, launch, exchgLaunch, cfg, killLocals,
                   ret, callLocals, sigVars, procs, envVars, cliVars, lastKill, histVars>>
    /\ UNCHANGED <<winVars, extVars>>

\* exchgLaunch = shl->exchange->launch and its two parts
ReadLaunch ==
    /\ pc = "read_launch"
    /\ exchgLaunch' = exchange.launch
    /\ launch' = AndLaunchMask(exchange.launch)
    /\ kill' = AndKillFirst(exchange.launch)
    /\ srcWriter' = wordWriter
    /\ pc' = "while"
    /\ UNCHANGED <<exchange, shmExists, srcPid, cfg, killLocals, ret, callLocals, sigVars,
                   procs, envVars, cliVars, lastKill, launchIntact, wordWriter,
                   writtenThisIter>>
    /\ UNCHANGED <<winVars, extVars>>

\* __sync_swap(&shutdown, 1)
SwapShutdown ==
    /\ pc = "swap_shutdown"
    /\ exchange' = [exchange EXCEPT !.shutdown = 1]
    /\ pc' = "wait_for_backend_exit"
    /\ UNCHANGED <<shmExists, supVars, sigVars, procs, envVars, cliVars, lastKill,
                   histVars>>
    /\ UNCHANGED <<winVars, extVars>>

\* count_handler: the family processes but the caller and _noKillPid
count_handler(table) == Cardinality(table \ {ownPid, NoKillPidDefault})

\* time(NULL) >= tmout in wait_for_backend_exit
WaitTimedOut_never(w) == FALSE

WaitTimedOut(w) == w >= SHUTDOWN_WAIT_SECS

\* one turn of the loop of wait_for_backend_exit: enumerate and count, leave
\* on a failed enumeration, on a count of zero or on the timeout, else sleep;
\* after the call ret = RET_SUCCESS
WaitForBackendExit ==
    /\ pc = "wait_for_backend_exit"
    /\ \E enumOk \in (IF sysctlFails THEN BOOLEAN ELSE {TRUE}) :
         IF enumOk /\ count_handler(procs) > 0 /\ ~WaitTimedOut(waited)
         THEN /\ waited' = waited + WaitSleepSecs
              /\ UNCHANGED <<pc, ret>>
         ELSE /\ waited' = 0
              /\ ret' = RET_SUCCESS
              /\ pc' = "cleanup"
    /\ UNCHANGED <<exchange, shmExists, loopLocals, cfg, killLocals, attempt,
                   sigVars, procs, envVars, cliVars, lastKill, histVars>>
    /\ UNCHANGED <<winVars, extVars>>

\* exchange_close: shmdt and shmctl(IPC_RMID) if a segment is attached
exchange_close_keep(exists) == exists

exchange_close(exists) == FALSE

\* cleanup: exchange_close detaches and removes the segment; _shl = NULL; the
\* process ends
Cleanup ==
    /\ pc = "cleanup"
    /\ shmExists' = exchange_close(shmExists)
    /\ shlGlobal' = FALSE
    /\ procs' = procs \ {ownPid}
    /\ pc' = "exited"
    /\ UNCHANGED <<exchange, supVars, terminate, envVars, cliVars, lastKill,
                   histVars>>
    /\ UNCHANGED <<winVars, extVars>>

\* on_terminate: the signal handler, called with _shl set
on_terminate ==
    /\ pc # "exited"
    /\ shlGlobal
    /\ terminate' = TRUE
    /\ sigterm' = TRUE
    /\ UNCHANGED <<exchange, shmExists, pc, supVars, shlGlobal, procs, envVars,
                   cliVars, lastKill, histVars>>
    /\ UNCHANGED <<winVars, argv2, argv3, cfgFile>>

\* on_terminate called while _shl is NULL, between signal() and _shl = shl:
\* nothing is stored
on_terminate_null ==
    /\ pc \notin {"none", "main", "exited"}
    /\ ~shlGlobal
    /\ sigterm' = TRUE
    /\ UNCHANGED <<exchange, shmExists, pc, supVars, sigVars, procs, envVars,
                   cliVars, lastKill, histVars>>
    /\ UNCHANGED <<winVars, argv2, argv3, cfgFile>>

(***************************************************************************)
(* The family processes the Supervisor waits for.  Their code is not part  *)
(* of the repository; they behave as the Exchange protocol describes.      *)
(***************************************************************************)
\* a backend acknowledges the shutdown request by clearing the flag
BackendAck ==
    /\ pc \in {"wait_for_backend_exit", "cleanup"}
    /\ exchange.shutdown = 1
    /\ procs \cap BackendPids # {}
    /\ exchange' = [exchange EXCEPT !.shutdown = 0]
    /\ UNCHANGED <<shmExists, pc, supVars, sigVars, procs, envVars, cliVars,
                   lastKill, histVars>>
    /\ UNCHANGED <<winVars, extVars>>

\* a family process other than a frontend ends while the Supervisor waits
FamilyExit ==
    /\ pc = "wait_for_backend_exit"
    /\ \E p \in procs \cap Leavers : procs' = procs \ {p}
    /\ UNCHANGED <<exchange, shmExists, pc, supVars, sigVars, envVars, cliVars,
                   lastKill, histVars>>
    /\ UNCHANGED <<winVars, extVars>>

(***************************************************************************)
(* The client library, launch.c, used by frontends.  A frontend runs as a  *)
(* process with a family name from its launch_open to its launch_close.    *)
(***************************************************************************)
\* launch_open up to cycles = result->exchange->cycles; NULL without a segment
launch_open(c) ==
    /\ chandle[c] = "unborn"
    /\ IF shmExists
       THEN /\ chandle' = [chandle EXCEPT ![c] = "polling"]
            /\ cyc0' = [cyc0 EXCEPT ![c] = exchange.cycles]
            /\ procs' = procs \cup {c}
       ELSE /\ chandle' = [chandle EXCEPT ![c] = "null"]
            /\ UNCHANGED <<cyc0, procs>>
    /\ UNCHANGED <<exchange, shmExists, pc, supVars, sigVars, envVars, cdo, writes,
                   lastKill, histVars>>
    /\ UNCHANGED <<winVars, extVars>>

\* the polling condition of launch_open
OpenWaits(size, cycles, first) == size # ExchangeSize /\ cycles = first

\* the evaluation of the polling condition that ends launch_open: the handle
\* when it is false, NULL when it is true and the deadline has passed
launch_open_poll(c) ==
    /\ chandle[c] = "polling"
    /\ IF OpenWaits(exchange.size, exchange.cycles, cyc0[c])
       THEN /\ chandle' = [chandle EXCEPT ![c] = "null"]
            /\ procs' = procs \ {c}
       ELSE /\ chandle' = [chandle EXCEPT ![c] = "open"]
            /\ procs' = procs
    /\ cyc0' = [cyc0 EXCEPT ![c] = 0]
    /\ UNCHANGED <<exchange, shmExists, pc, supVars, sigVars, envVars, cdo, writes,
                   lastKill, histVars>>
    /\ UNCHANGED <<winVars, extVars>>

\* launch_do, first statement: launchProcessId = lh->processId
StoreLaunchPid_processId(e, c) == [e EXCEPT !.processId = c]

StoreLaunchPid(e, c) == [e EXCEPT !.launchProcessId = c]

launch_do_pid(c) ==
    /\ chandle[c] = "open"
    /\ cdo[c] = 0
    /\ writes < MaxWrites
    /\ \E signal \in Words : cdo' = [cdo EXCEPT ![c] = signal]
    /\ writes' = writes + 1
    /\ exchange' = StoreLaunchPid(exchange, c)
    /\ UNCHANGED <<shmExists, pc, supVars, sigVars, procs, envVars, chandle, cyc0,
                   lastKill, histVars>>
    /\ UNCHANGED <<winVars, extVars>>

\* launch_do, second statement: __sync_swap(&launch, signal)
launch_do_swap(c) ==
    /\ chandle[c] = "open"
    /\ cdo[c] # 0
    /\ exchange' = [exchange EXCEPT !.launch = cdo[c]]
    /\ cdo' = [cdo EXCEPT ![c] = 0]
    /\ launchIntact' = TRUE
    /\ wordWriter' = c
    /\ writtenThisIter' = TRUE
    /\ UNCHANGED <<shmExists, pc, supVars, sigVars, procs, envVars, chandle, cyc0,
                   writes, lastKill, srcWriter>>
    /\ UNCHANGED <<winVars, extVars>>

\* launch_close: shmdt and free; the frontend ends
launch_close(c) ==
    /\ chandle[c] = "open"
    /\ cdo[c] = 0
    /\ chandle' = [chandle EXCEPT ![c] = "gone"]
    /\ procs' = procs \ {c}
    /\ UNCHANGED <<exchange, shmExists, pc, supVars, sigVars, envVars, cyc0, cdo,
                   writes, lastKill, histVars>>
    /\ UNCHANGED <<winVars, extVars>>

(***************************************************************************)
(* activate, called by main for --activate; main then returns its result.  *)
(***************************************************************************)
\* create_daemon_plist: the descriptor is written; or fopen fails and the
\* file is as before; or the write fails and the file is unlinked
ActivatePlist ==
    /\ pc = "activate"
    /\ \E outcome \in {"written", "not opened", "unlinked"} :
         /\ plistExists' = (outcome = "written" \/ (outcome = "not opened" /\ plistExists))
         /\ IF outcome = "written"
            THEN /\ pc' = "kill_pass"
                 /\ killCaller' = "activate"
                 /\ ret' = ret
            ELSE /\ pc' = "cleanup"
                 /\ killCaller' = killCaller
                 /\ ret' = RET_ACTIVATE_ERROR
    /\ UNCHANGED <<exchange, shmExists, loopLocals, cfg, retries, killRet, callLocals,
                   sigVars, procs, exeExists, stubborn, sysctlFails, staleRegion,
                   argv1, cliVars, lastKill, histVars>>
    /\ UNCHANGED <<winVars, extVars>>

\* err = kill_old_processes_and_wait(0); if (err) return RET_ACTIVATE_ERROR
ActivateKilled(err) == IF err # 0 THEN "cleanup" ELSE "activate_reset"

ActivateKillDone ==
    /\ pc = "activate_killed"
    /\ pc' = ActivateKilled(killRet)
    /\ ret' = IF pc' = "cleanup" THEN RET_ACTIVATE_ERROR ELSE ret
    /\ UNCHANGED <<exchange, shmExists, loopLocals, cfg, killLocals, callLocals,
                   sigVars, procs, envVars, cliVars, lastKill, histVars>>
    /\ UNCHANGED <<winVars, extVars>>

\* err = exchange_reset(): shmget(key, 32, 0) does not find a segment smaller
\* than 32 bytes and reports success; else shmctl(IPC_RMID) removes the
\* segment or fails
ActivateReset ==
    /\ pc = "activate_reset"
    /\ \E removed \in BOOLEAN :
         IF staleRegion \in {"none", "tiny"}
         THEN /\ UNCHANGED <<staleRegion, ret>>
              /\ pc' = "activate_datadir"
         ELSE IF removed
              THEN /\ staleRegion' = "none"
                   /\ ret' = ret
                   /\ pc' = "activate_datadir"
              ELSE /\ staleRegion' = staleRegion
                   /\ ret' = RET_ACTIVATE_ERROR
                   /\ pc' = "cleanup"
    /\ UNCHANGED <<exchange, shmExists, loopLocals, cfg, killLocals, callLocals,
                   sigVars, procs, exeExists, plistExists, stubborn, sysctlFails,
                   argv1, cliVars, lastKill, histVars>>
    /\ UNCHANGED <<winVars, extVars>>

\* the rest of activate: prepare_data_dir, which returns RET_SUCCESS or
\* RET_ERROR, or the link to the local data directory, which returns 0
ActivateDataDir ==
    /\ pc = "activate_datadir"
    /\ \E r \in {RET_SUCCESS, RET_ERROR} : ret' = r
    /\ pc' = "cleanup"
    /\ UNCHANGED <<exchange, shmExists, loopLocals, cfg, killLocals, callLocals,
                   sigVars, procs, envVars, cliVars, lastKill, histVars>>
    /\ UNCHANGED <<winVars, extVars>>

Activation == ActivatePlist \/ ActivateKillDone \/ ActivateReset \/ ActivateDataDir

Supervisor ==
    \/ KillPass \/ ExchangeOpen \/ ExchangeReset \/ Shmat \/ InitIdentity \/ SetSize \/ SetShl \/ CfgLoad0
    \/ While \/ Incr \/ Access \/ ClearKill \/ CfgLoad \/ LaunchBackend
    \/ ClearLaunch \/ ReadSrc \/ ReadLaunch
    \/ SwapShutdown \/ WaitForBackendExit \/ Cleanup

Client ==
    \E c \in Clients :
        \/ launch_open(c) \/ launch_open_poll(c)
        \/ launch_do_pid(c) \/ launch_do_swap(c) \/ launch_close(c)

Family == BackendAck \/ FamilyExit

Next == Supervisor \/ on_terminate \/ Client \/ Family

Spec == Init /\ [][Next]_vars

(***************************************************************************)
(* The stop of the Supervisor taken alone: no frontend runs, the parent    *)
(* may or may not carry a family name, the process listing may fail.  The  *)
(* Supervisor is a running process, so its next statement is executed      *)
(* eventually.                                                             *)
(***************************************************************************)
InitStop ==
    /\ exchange = ZeroExchange
    /\ shmExists = FALSE
    /\ pc = "kill_pass"
    /\ kill = 0
    /\ launch = 0
    /\ srcPid = 0
    /\ exchgLaunch = 0
    /\ cfg = cfgDefault
    /\ retries = KILL_WAIT_RETRIES
    /\ killCaller = "startup"
    /\ killRet = RET_SUCCESS
    /\ ret = RET_ERROR
    /\ waited = 0
    /\ attempt = 0
    /\ terminate = FALSE
    /\ sigterm = FALSE
    /\ argv2 = "none"
    /\ argv3 = 0
    /\ cfgFile = NoCfgFile
    /\ shlGlobal = FALSE
    /\ procs \in {{ownPid} \cup S : S \in SUBSET (BackendPids \cup {parentPid})}
    /\ stubborn = {}
    /\ sysctlFails \in BOOLEAN
    /\ exeExists = TRUE
    /\ plistExists = TRUE
    /\ argv1 = "build"
    /\ staleRegion \in StaleKinds
    /\ chandle = [c \in Clients |-> "unborn"]
    /\ cyc0 = [c \in Clients |-> 0]
    /\ cdo = [c \in Clients |-> 0]
    /\ writes = 0
    /\ lastKill = [noKillPid |-> 0, err |-> 0, pids |-> {}, result |-> 0]
    /\ launchIntact = TRUE
    /\ wordWriter = 0
    /\ srcWriter = 0
    /\ writtenThisIter = FALSE
    /\ WinNone

NextStop == Supervisor \/ on_terminate \/ Family

SpecStop == InitStop /\ [][NextStop]_vars /\ WF_vars(Supervisor)

\* a call of the Supervisor with --activate; the process not to kill is
\* none or a family process that runs
InitAct ==
    /\ exchange = ZeroExchange
    /\ shmExists = FALSE
    /\ pc = "main"
    /\ kill = 0
    /\ launch = 0
    /\ srcPid = 0
    /\ exchgLaunch = 0
    /\ cfg = cfgDefault
    /\ retries = KILL_WAIT_RETRIES
    /\ killCaller = "startup"
    /\ killRet = RET_SUCCESS
    /\ ret = RET_SUCCESS
    /\ waited = 0
    /\ attempt = 0
    /\ terminate = FALSE
    /\ shlGlobal = FALSE
    /\ sigterm = FALSE
    /\ argv2 = "--activate"
    /\ procs \in {{ownPid, parentPid} \cup S : S \in SUBSET (BackendPids \cup OldPids)}
    /\ argv3 \in {0} \cup (procs \cap OldPids)
    /\ cfgFile = NoCfgFile
    /\ stubborn \in SUBSET OldPids
    /\ sysctlFails \in BOOLEAN
    /\ exeExists = TRUE
    /\ plistExists \in BOOLEAN
    /\ staleRegion \in StaleKinds
    /\ argv1 = "build"
    /\ chandle = [c \in Clients |-> "unborn"]
    /\ cyc0 = [c \in Clients |-> 0]
    /\ cdo = [c \in Clients |-> 0]
    /\ writes = 0
    /\ lastKill = [noKillPid |-> 0, err |-> 0, pids |-> {}, result |-> 0]
    /\ launchIntact = TRUE
    /\ wordWriter = 0
    /\ srcWriter = 0
    /\ writtenThisIter = FALSE
    /\ WinNone

NextAct == Main \/ KillPass \/ Activation \/ Cleanup

SpecAct == InitAct /\ [][NextAct]_vars

\* the same with termination signals that arrive before _shl is set
NextSig == NextStop \/ on_terminate_null

SpecSig == InitStop /\ [][NextSig]_vars /\ WF_vars(Supervisor)

(***************************************************************************)
(* A call of the Supervisor from its first statement, with any first       *)
(* argument, with family processes of an earlier installation that may     *)
(* stay in the process table after SIGKILL, and with a process listing     *)
(* that may fail.  No frontend runs.                                       *)
(***************************************************************************)
InitMain ==
    /\ exchange = ZeroExchange
    /\ shmExists = FALSE
    /\ pc = "main"
    /\ kill = 0
    /\ launch = 0
    /\ srcPid = 0
    /\ exchgLaunch = 0
    /\ cfg = cfgDefault
    /\ retries = KILL_WAIT_RETRIES
    /\ killCaller = "startup"
    /\ killRet = RET_SUCCESS
    /\ ret = RET_ERROR
    /\ waited = 0
    /\ attempt = 0
    /\ terminate = FALSE
    /\ sigterm = FALSE
    /\ argv2 = "none"
    /\ argv3 = 0
    /\ cfgFile = NoCfgFile
    /\ shlGlobal = FALSE
    /\ procs \in {{ownPid, parentPid} \cup S : S \in SUBSET (BackendPids \cup OldPids)}
    /\ stubborn \in SUBSET OldPids
    /\ sysctlFails \in BOOLEAN
    /\ exeExists = TRUE
    /\ plistExists \in BOOLEAN
    /\ staleRegion \in {"none", "sized"}
    /\ argv1 \in ArgKinds
    /\ chandle = [c \in Clients |-> "unborn"]
    /\ cyc0 = [c \in Clients |-> 0]
    /\ cdo = [c \in Clients |-> 0]
    /\ writes = 0
    /\ lastKill = [noKillPid |-> 0, err |-> 0, pids |-> {}, result |-> 0]
    /\ launchIntact = TRUE
    /\ wordWriter = 0
    /\ srcWriter = 0
    /\ writtenThisIter = FALSE
    /\ WinNone

\* an earlier Supervisor instance, a process named shlaunch that is in its
\* Control Loop when the new instance starts
OldSupervisor == CHOOSE p \in OldPids : TRUE

NextMain == Main \/ Supervisor \/ on_terminate \/ Family

SpecMain == InitMain /\ [][NextMain]_vars

(***************************************************************************)
(* A run of the Supervisor with one frontend and with family processes of  *)
(* an earlier installation that may stay in the process table after        *)
(* SIGKILL.  The family processes do not end by themselves.                *)
(***************************************************************************)
\* the frontend that runs
Frontend1 == 21

InitFront ==
    /\ exchange = ZeroExchange
    /\ shmExists = FALSE
    /\ pc = "main"
    /\ kill = 0
    /\ launch = 0
    /\ srcPid = 0
    /\ exchgLaunch = 0
    /\ cfg = cfgDefault
    /\ retries = KILL_WAIT_RETRIES
    /\ killCaller = "startup"
    /\ killRet = RET_SUCCESS
    /\ ret = RET_ERROR
    /\ waited = 0
    /\ attempt = 0
    /\ terminate = FALSE
    /\ sigterm = FALSE
    /\ argv2 = "none"
    /\ argv3 = 0
    /\ cfgFile = NoCfgFile
    /\ shlGlobal = FALSE
    /\ procs \in {{ownPid, parentPid} \cup S : S \in SUBSET (BackendPids \cup OldPids)}
    /\ stubborn \in SUBSET OldPids
    /\ sysctlFails = FALSE
    /\ exeExists = TRUE
    /\ plistExists = TRUE
    /\ staleRegion \in {"none", "sized"}
    /\ argv1 = "build"
    /\ chandle = [c \in Clients |-> "unborn"]
    /\ cyc0 = [c \in Clients |-> 0]
    /\ cdo = [c \in Clients |-> 0]
    /\ writes = 0
    /\ lastKill = [noKillPid |-> 0, err |-> 0, pids |-> {}, result |-> 0]
    /\ launchIntact = TRUE
    /\ wordWriter = 0
    /\ srcWriter = 0
    /\ writtenThisIter = FALSE
    /\ WinNone

Frontend ==
    \/ launch_open(Frontend1) \/ launch_open_poll(Frontend1)
    \/ launch_do_pid(Frontend1) \/ launch_do_swap(Frontend1)
    \/ launch_close(Frontend1)

NextFront == Main \/ Supervisor \/ on_terminate \/ Frontend

SpecFront == InitFront /\ [][NextFront]_vars

(***************************************************************************)
(* The Windows Supervisor, shlaunchWin/shlaunch/shlaunch.c: _tmain with    *)
(* its one-shot commands, and the service, svc_main with ctrl_handler.     *)
(***************************************************************************)
\* number of arguments _tmain is called with, at most
MaxArgs == 2
\* arguments: an option, the four commands, anything else
ArgWords == {"--opt", "install", "remove", "start", "shutdown", "bogus"}
ArgLists == UNION {[1..n -> ArgWords] : n \in 0..MaxArgs}
\* !_tcsncmp(ARG_PREFIX, cmd, _tcslen(ARG_PREFIX))
HasArgPrefix(cmd) == cmd = "--opt"
Commands == {"remove", "shutdown", "install", "start"}
\* the control commands the SCM sends
Controls == {"STOP", "SHUTDOWN", "INTERROGATE"}
\* launch words the test client stores: (launchCode & 0xffff) plus the flag
TestWords == {1, LAUNCH_FLAG_KILL_FIRST, LAUNCH_FLAG_KILL_FIRST + 1}
\* contents the Windows configuration file can have
WinCfgFiles == [autostart : {"TRUE", "none"}, backend : {"TRUE", "FALSE", "none"}]

\* config_read: GetPrivateProfileString with the defaults FALSE and TRUE
config_read(file) ==
    [autoStart |-> IF file.autostart = "none" THEN FALSE
                   ELSE file.autostart = "TRUE",
     backend   |-> IF file.backend = "none" THEN TRUE
                   ELSE file.backend = "TRUE"]

\* the exit codes service_remove, service_shutdown, service_install and
\* service_start can return
CommandCodes(cmd) ==
    CASE cmd = "remove" -> {EXITCODE_SUCCESS, EXITCODE_SERVICE_ERROR,
                            EXITCODE_SERVICE_REMOVAL_PENDING}
      [] cmd = "shutdown" -> {EXITCODE_SUCCESS, EXITCODE_ERROR}
      [] cmd = "install" -> {EXITCODE_SUCCESS, EXITCODE_ERROR,
                             EXITCODE_SERVICE_ERROR,
                             EXITCODE_SERVICE_REMOVAL_PENDING,
                             EXITCODE_DATADIR_POINTER_ERROR}
      [] OTHER -> {EXITCODE_SUCCESS, EXITCODE_SERVICE_ERROR,
                   EXITCODE_SERVICE_MISSING}

\* what the service control manager answers to service_start: OpenSCManager
\* fails, OpenService fails with ERROR_SERVICE_DOES_NOT_EXIST or with another
\* error, StartService starts the service, fails with
\* ERROR_SERVICE_ALREADY_RUNNING or fails with another error
StartCases == {"no manager", "no service", "open refused", "started",
               "already running", "not started"}

\* what is recorded of the service control manager for a command: its
\* answer to service_start, nothing for the other commands
ScmCases(cmd) == IF cmd = "start" THEN StartCases ELSE {"unobserved"}

\* service_open
service_open(scm) ==
    CASE scm = "no manager" -> EXITCODE_SERVICE_ERROR
      [] scm = "no service" -> EXITCODE_SERVICE_MISSING
      [] scm = "open refused" -> EXITCODE_SERVICE_ERROR
      [] OTHER -> EXITCODE_SUCCESS

\* service_start: the exit code is the one of service_open, set again to
\* EXITCODE_SUCCESS when StartService fails because the service runs
service_start(scm) ==
    LET opened == service_open(scm)
    IN  IF opened = EXITCODE_SUCCESS
        THEN IF scm # "started"
             THEN IF scm = "already running" THEN EXITCODE_SUCCESS
                  ELSE opened
             ELSE opened
        ELSE opened

\* kill_handler: the processes passed to TerminateProcess
WinKillTargets(table, noKillPid) == table \ {ownPid, noKillPid}

\* InterlockedIncrement(&exchange->cycles); the model stops counting at
\* MaxCycles
WinIncr(c) == IF c < MaxCycles THEN c + 1 ELSE c

\* _tmain up to the test of argc: GetModuleFileName, then the commands if
\* there are arguments, else service_execute, whose dispatcher runs svc_main
Tmain ==
    /\ wpc = "tmain"
    /\ \E pathOk \in BOOLEAN :
         IF ~pathOk
         THEN /\ exitcode' = EXITCODE_ERROR
              /\ wpc' = "exited"
              /\ procs' = procs \ {ownPid}
              /\ argi' = argi
         ELSE IF Len(argvW) > 0
              THEN /\ exitcode' = EXITCODE_SUCCESS
                   /\ argi' = 1
                   /\ wpc' = "tmain_args"
                   /\ procs' = procs
              ELSE \E started \in BOOLEAN :
                     /\ argi' = argi
                     /\ IF started
                        THEN /\ wpc' = "svc_main"
                             /\ UNCHANGED <<exitcode, procs>>
                        ELSE /\ exitcode' = EXITCODE_ERROR
                             /\ wpc' = "exited"
                             /\ procs' = procs \ {ownPid}
    /\ UNCHANGED <<exchange, shmExists, macVars, argvW, executed, noAutostart,
                   ctxSet, handlerOn, evtExit, svcStatus, config, wlaunch, wstatus,
                   wwaited, ctrl, tpc, tseen, twrites, tlate>>

\* i < argc && !exitcode, with the arguments counted from 1
TmainLoops_all(i, n, code) == i <= n

TmainLoops(i, n, code) == i <= n /\ code = 0

\* one turn of the for loop of _tmain, and the return that follows it
TmainArg ==
    /\ wpc = "tmain_args"
    /\ IF TmainLoops(argi, Len(argvW), exitcode)
       THEN IF HasArgPrefix(argvW[argi])
            THEN /\ argi' = argi + 1
                 /\ UNCHANGED <<wpc, exitcode, executed, procs>>
            ELSE IF argvW[argi] \in Commands
                 THEN /\ \E code \in CommandCodes(argvW[argi]),
                              scm \in ScmCases(argvW[argi]) :
                           /\ exitcode' = code
                           /\ argvW[argi] = "start" => code = service_start(scm)
                           /\ executed' = Append(executed, <<argvW[argi], code, scm>>)
                           /\ (argvW[argi] = "shutdown"
                                 /\ WinKillTargets(procs, 0) \cap stubborn # {})
                                => code = EXITCODE_ERROR
                      /\ procs' = IF argvW[argi] = "shutdown"
                                  THEN procs \ (WinKillTargets(procs, 0) \ stubborn)
                                  ELSE procs
                      /\ argi' = argi + 1
                      /\ wpc' = wpc
                 ELSE /\ exitcode' = EXITCODE_BAD_ARGS
                      /\ wpc' = "exited"
                      /\ procs' = procs \ {ownPid}
                      /\ UNCHANGED <<argi, executed>>
       ELSE /\ wpc' = "exited"
            /\ procs' = procs \ {ownPid}
            /\ UNCHANGED <<argi, exitcode, executed>>
    /\ UNCHANGED <<exchange, shmExists, macVars, argvW, noAutostart, ctxSet,
                   handlerOn, evtExit, svcStatus, config, wlaunch, wstatus, wwaited,
                   ctrl, tpc, tseen, twrites, tlate>>

\* svc_main: calloc and _ctx = ctx
SvcMain ==
    /\ wpc = "svc_main"
    /\ \E ok \in BOOLEAN :
         IF ok
         THEN ctxSet' = TRUE /\ wpc' = "create_map"
         ELSE ctxSet' = ctxSet /\ wpc' = "cleanup"
    /\ UNCHANGED <<exchange, shmExists, procs, macVars, argvW, argi, exitcode,
                   executed, noAutostart, handlerOn, evtExit, svcStatus, config,
                   wlaunch, wstatus, wwaited, ctrl, tpc, tseen, twrites, tlate>>

\* the security descriptor, CreateFileMapping and MapViewOfFile
CreateMap ==
    /\ wpc = "create_map"
    /\ \E ok \in BOOLEAN :
         IF ok
         THEN shmExists' = TRUE /\ wpc' = "zero_memory"
         ELSE shmExists' = shmExists /\ wpc' = "cleanup"
    /\ UNCHANGED <<exchange, procs, macVars, argvW, argi, exitcode, executed,
                   noAutostart, ctxSet, handlerOn, evtExit, svcStatus, config,
                   wlaunch, wstatus, wwaited, ctrl, tpc, tseen, twrites, tlate>>

\* ZeroMemory(exchange); exchange->processId = GetCurrentProcessId()
ZeroMemory ==
    /\ wpc = "zero_memory"
    /\ exchange' = [ZeroExchange EXCEPT !.processId = ownPid]
    /\ wpc' = "register"
    /\ UNCHANGED <<shmExists, procs, macVars, argvW, argi, exitcode, executed,
                   noAutostart, ctxSet, handlerOn, evtExit, svcStatus, config,
                   wlaunch, wstatus, wwaited, ctrl, tpc, tseen, twrites, tlate>>

\* RegisterServiceCtrlHandler and update_status(SERVICE_START_PENDING)
RegisterHandler ==
    /\ wpc = "register"
    /\ \E ok \in BOOLEAN :
         IF ok
         THEN /\ handlerOn' = TRUE
              /\ svcStatus' = "START_PENDING"
              /\ wpc' = "data_dir"
         ELSE /\ UNCHANGED <<handlerOn, svcStatus>>
              /\ wpc' = "cleanup"
    /\ UNCHANGED <<exchange, shmExists, procs, macVars, argvW, argi, exitcode,
                   executed, noAutostart, ctxSet, evtExit, config, wlaunch, wstatus,
                   wwaited, ctrl, tpc, tseen, twrites, tlate>>

\* what svc_main finds when it looks for the data directory: the pointer
\* file cannot be opened or read, its line names no directory, the ACL of
\* the directory cannot be set, or all of it succeeds
DataDirCases == {"usable", "no pointer", "no directory", "acl refused"}

\* get_data_dir_from_pointer, ensure_dir_with_user_acl, the copy of dataDir
DataDir ==
    /\ wpc = "data_dir"
    /\ \E found \in DataDirCases :
         IF found = "usable"
         THEN /\ exchange' = [exchange EXCEPT !.identity = TRUE]
              /\ wpc' = "set_size"
         ELSE /\ exchange' = exchange
              /\ wpc' = "cleanup"
    /\ UNCHANGED <<shmExists, procs, macVars, argvW, argi, exitcode, executed,
                   noAutostart, ctxSet, handlerOn, evtExit, svcStatus, config,
                   wlaunch, wstatus, wwaited, ctrl, tpc, tseen, twrites, tlate>>

\* exchange->size = sizeof(*exchange)
WinSetSize ==
    /\ wpc = "set_size"
    /\ exchange' = [exchange EXCEPT !.size = ExchangeSize]
    /\ wpc' = "config_read0"
    /\ UNCHANGED <<shmExists, procs, macVars, argvW, argi, exitcode, executed,
                   noAutostart, ctxSet, handlerOn, evtExit, svcStatus, config,
                   wlaunch, wstatus, wwaited, ctrl, tpc, tseen, twrites, tlate>>

\* the first config_read and the --no-autostart argument
ConfigRead0 ==
    /\ wpc = "config_read0"
    /\ \E file \in WinCfgFiles :
         config' = IF noAutostart
                   THEN [config_read(file) EXCEPT !.autoStart = FALSE]
                   ELSE config_read(file)
    /\ wpc' = "create_event"
    /\ UNCHANGED <<exchange, shmExists, procs, macVars, argvW, argi, exitcode,
                   executed, noAutostart, ctxSet, handlerOn, evtExit, svcStatus,
                   wlaunch, wstatus, wwaited, ctrl, tpc, tseen, twrites, tlate>>

\* ctx->evtExit = CreateEvent(NULL, FALSE, FALSE, NULL)
CreateEvent ==
    /\ wpc = "create_event"
    /\ \E ok \in BOOLEAN :
         IF ok
         THEN evtExit' = "reset" /\ wpc' = "running"
         ELSE evtExit' = evtExit /\ wpc' = "cleanup"
    /\ UNCHANGED <<exchange, shmExists, procs, macVars, argvW, argi, exitcode,
                   executed, noAutostart, ctxSet, handlerOn, svcStatus, config,
                   wlaunch, wstatus, wwaited, ctrl, tpc, tseen, twrites, tlate>>

\* update_status(SERVICE_RUNNING); exchange->launch = autoStart ? 0xffff : 0
Running ==
    /\ wpc = "running"
    /\ svcStatus' = "RUNNING"
    /\ exchange' = [exchange EXCEPT
                      !.launch = IF config.autoStart THEN InitialLaunchWord ELSE 0]
    /\ wpc' = "swap_launch"
    /\ tlate' = FALSE
    /\ UNCHANGED <<shmExists, procs, macVars, argvW, argi, exitcode, executed,
                   noAutostart, ctxSet, handlerOn, evtExit, config, wlaunch, wstatus,
                   wwaited, ctrl, tpc, tseen, twrites>>

\* LONG launch = InterlockedExchange(&exchange->launch, 0); status = 0
SwapLaunch ==
    /\ wpc = "swap_launch"
    /\ wlaunch' = exchange.launch
    /\ wstatus' = 0
    /\ exchange' = [exchange EXCEPT !.launch = 0]
    /\ wpc' = "incr"
    /\ tlate' = FALSE
    /\ UNCHANGED <<shmExists, procs, macVars, argvW, argi, exitcode, executed,
                   noAutostart, ctxSet, handlerOn, evtExit, svcStatus, config,
                   wwaited, ctrl, tpc, tseen, twrites>>

\* if (launch) { ... } InterlockedExchange(&exchange->status, status): the
\* status is stored in every iteration
AfterIncr_skip(l) == IF l # 0 THEN "config_read" ELSE "wait"

AfterIncr(l) == IF l # 0 THEN "config_read" ELSE "set_status"

\* InterlockedIncrement(&exchange->cycles); if (launch)
WinIncrCycles ==
    /\ wpc = "incr"
    /\ exchange' = [exchange EXCEPT !.cycles = WinIncr(exchange.cycles)]
    /\ wpc' = AfterIncr(wlaunch)
    /\ UNCHANGED <<shmExists, procs, macVars, argvW, argi, exitcode, executed,
                   noAutostart, ctxSet, handlerOn, evtExit, svcStatus, config,
                   wlaunch, wstatus, wwaited, ctrl, tpc, tseen, twrites, tlate>>

\* the statement after the kill section of the loop body of svc_main
WinAfterKill == IF AndLaunchMask(wlaunch) # 0 THEN "launch_backend" ELSE "status_launch"

\* config_read(ctx) in the loop; if (LAUNCH_FLAG_KILL_FIRST & launch)
ConfigRead ==
    /\ wpc = "config_read"
    /\ \E file \in WinCfgFiles : config' = config_read(file)
    /\ wpc' = IF AndKillFirst(wlaunch) # 0 THEN "kill" ELSE WinAfterKill
    /\ UNCHANGED <<exchange, shmExists, procs, macVars, argvW, argi, exitcode,
                   executed, noAutostart, ctxSet, handlerOn, evtExit, svcStatus,
                   wlaunch, wstatus, wwaited, ctrl, tpc, tseen, twrites, tlate>>

\* kill_processes(KILL_CANDIDATES, exchange->launchProcessId)
WinKill ==
    /\ wpc = "kill"
    /\ procs' = procs \ (WinKillTargets(procs, exchange.launchProcessId) \ stubborn)
    /\ wpc' = WinAfterKill
    /\ UNCHANGED <<exchange, shmExists, macVars, argvW, argi, exitcode, executed,
                   noAutostart, ctxSet, handlerOn, evtExit, svcStatus, config,
                   wlaunch, wstatus, wwaited, ctrl, tpc, tseen, twrites, tlate>>

\* launch_backend of the Windows Supervisor: ERROR_ACCESS_DENIED if the
\* configuration has no backend, else CreateProcessW
WinLaunchBackend ==
    /\ wpc = "launch_backend"
    /\ IF config.backend
       THEN \E created \in BOOLEAN :
              IF created /\ BackendPids \ procs # {}
              THEN \E child \in BackendPids \ procs : procs' = procs \cup {child}
              ELSE procs' = procs
       ELSE procs' = procs
    /\ wpc' = "status_launch"
    /\ UNCHANGED <<exchange, shmExists, macVars, argvW, argi, exitcode, executed,
                   noAutostart, ctxSet, handlerOn, evtExit, svcStatus, config,
                   wlaunch, wstatus, wwaited, ctrl, tpc, tseen, twrites, tlate>>

\* status = launch
StatusLaunch ==
    /\ wpc = "status_launch"
    /\ wstatus' = wlaunch
    /\ wpc' = "set_status"
    /\ UNCHANGED <<exchange, shmExists, procs, macVars, argvW, argi, exitcode,
                   executed, noAutostart, ctxSet, handlerOn, evtExit, svcStatus,
                   config, wlaunch, wwaited, ctrl, tpc, tseen, twrites, tlate>>

\* InterlockedExchange(&exchange->status, status)
SetStatus ==
    /\ wpc = "set_status"
    /\ exchange' = [exchange EXCEPT !.status = wstatus]
    /\ wpc' = "wait"
    /\ UNCHANGED <<shmExists, procs, macVars, argvW, argi, exitcode, executed,
                   noAutostart, ctxSet, handlerOn, evtExit, svcStatus, config,
                   wlaunch, wstatus, wwaited, ctrl, tpc, tseen, twrites, tlate>>

\* WAIT_TIMEOUT != WaitForSingleObject(ctx->evtExit, POLL_MILLIS): a
\* signalled event ends the wait, is reset by it and ends the loop
WaitLeaves(evt) == evt = "set"

Wait ==
    /\ wpc = "wait"
    /\ IF WaitLeaves(evtExit)
       THEN evtExit' = "reset" /\ wpc' = "detect"
       ELSE evtExit' = evtExit /\ wpc' = "swap_launch"
    /\ UNCHANGED <<exchange, shmExists, procs, macVars, argvW, argi, exitcode,
                   executed, noAutostart, ctxSet, handlerOn, svcStatus, config,
                   wlaunch, wstatus, wwaited, ctrl, tpc, tseen, twrites, tlate>>

\* enumerate_processes(backend_detect_handler); with a backend found the
\* shutdown flag is set and tmout is taken
Detect ==
    /\ wpc = "detect"
    /\ \E enumOk \in BOOLEAN :
         IF enumOk /\ procs \cap BackendPids # {}
         THEN /\ exchange' = [exchange EXCEPT !.shutdown = 1]
              /\ wwaited' = 0
              /\ wpc' = "shutdown_wait"
         ELSE /\ UNCHANGED <<exchange, wwaited>>
              /\ wpc' = "cleanup"
    /\ UNCHANGED <<shmExists, procs, macVars, argvW, argi, exitcode, executed,
                   noAutostart, ctxSet, handlerOn, evtExit, svcStatus, config,
                   wlaunch, wstatus, ctrl, tpc, tseen, twrites, tlate>>

\* one turn of while (_ctx->exchange->shutdown): the polls of one second
ShutdownWait ==
    /\ wpc = "shutdown_wait"
    /\ IF exchange.shutdown # 0 /\ ~(wwaited > SHUTDOWN_SIGNAL_TIMOUT_SECS)
       THEN wwaited' = wwaited + 1 /\ wpc' = wpc
       ELSE wwaited' = 0 /\ wpc' = "cleanup"
    /\ UNCHANGED <<exchange, shmExists, procs, macVars, argvW, argi, exitcode,
                   executed, noAutostart, ctxSet, handlerOn, evtExit, svcStatus,
                   config, wlaunch, wstatus, ctrl, tpc, tseen, twrites, tlate>>

\* cleanup of svc_main: _ctx = NULL, the view and the map are closed,
\* update_status(SERVICE_STOPPED); the dispatcher returns and the process
\* ends with EXITCODE_SUCCESS
WinCleanup ==
    /\ wpc = "cleanup"
    /\ ctxSet' = FALSE
    /\ shmExists' = FALSE
    /\ svcStatus' = IF handlerOn THEN "STOPPED" ELSE svcStatus
    /\ handlerOn' = FALSE
    /\ exitcode' = EXITCODE_SUCCESS
    /\ procs' = procs \ {ownPid}
    /\ wpc' = "exited"
    /\ UNCHANGED <<exchange, macVars, argvW, argi, executed, noAutostart, evtExit,
                   config, wlaunch, wstatus, wwaited, ctrl, tpc, tseen, twrites, tlate>>

\* ctrl_handler: the SCM sends the controls the status last reported
\* accepts, SERVICE_CONTROL_STOP not while the start is pending
ctrl_handler(c) ==
    /\ handlerOn
    /\ c = "STOP" => svcStatus # "START_PENDING"
    /\ ctrl' = c
    /\ IF c \in {"SHUTDOWN", "STOP"} /\ ctxSet
       THEN /\ svcStatus' = "STOP_PENDING"
            /\ evtExit' = IF evtExit = "null" THEN evtExit ELSE "set"
       ELSE UNCHANGED <<svcStatus, evtExit>>
    /\ UNCHANGED <<exchange, shmExists, procs, macVars, wpc, argvW, argi, exitcode,
                   executed, noAutostart, ctxSet, handlerOn, config, wlaunch,
                   wstatus, wwaited, tpc, tseen, twrites, tlate>>

\* a backend acknowledges the shutdown request of the Windows Supervisor
WinBackendAck ==
    /\ wpc = "shutdown_wait"
    /\ exchange.shutdown = 1
    /\ procs \cap BackendPids # {}
    /\ exchange' = [exchange EXCEPT !.shutdown = 0]
    /\ UNCHANGED <<shmExists, procs, macVars, winVars>>

(***************************************************************************)
(* The Windows test client, shlaunch_test.c.                               *)
(***************************************************************************)
\* OpenFileMapping and MapViewOfFile
TestOpen ==
    /\ tpc = "main"
    /\ tpc' = IF shmExists THEN "getch" ELSE "exited"
    /\ UNCHANGED <<exchange, shmExists, procs, macVars, wpc, argvW, argi, exitcode,
                   executed, noAutostart, ctxSet, handlerOn, evtExit, svcStatus,
                   config, wlaunch, wstatus, wwaited, ctrl, tseen, twrites, tlate>>

\* exchange->launch = (launchCode & 0xffff) + flag, the store a key that
\* passes the test of line 45 leads to
TestStore ==
    /\ tpc = "getch"
    /\ twrites < MaxWrites
    /\ \E w \in TestWords : exchange' = [exchange EXCEPT !.launch = w]
    /\ twrites' = twrites + 1
    /\ tpc' = "waiting"
    /\ UNCHANGED <<shmExists, procs, macVars, wpc, argvW, argi, exitcode,
                   executed, noAutostart, ctxSet, handlerOn, evtExit, svcStatus,
                   config, wlaunch, wstatus, wwaited, ctrl, tseen>>
    /\ tlate' = (exchange.size # 0)

\* while (exchange->launch != exchange->status): the read of one operand
TestRead ==
    /\ tpc = "waiting"
    /\ tseen.field = "none"
    /\ \E f \in {"launch", "status"} :
         tseen' = [field |-> f, value |-> exchange[f]]
    /\ UNCHANGED <<exchange, shmExists, procs, macVars, wpc, argvW, argi, exitcode,
                   executed, noAutostart, ctxSet, handlerOn, evtExit, svcStatus,
                   config, wlaunch, wstatus, wwaited, ctrl, tpc, twrites, tlate>>

\* the read of the other operand and the comparison; Sleep(1) if they differ
TestCompare ==
    /\ tpc = "waiting"
    /\ tseen.field # "none"
    /\ LET other == IF tseen.field = "launch" THEN exchange.status
                    ELSE exchange.launch
       IN tpc' = IF tseen.value # other THEN "waiting" ELSE "getch"
    /\ tseen' = [field |-> "none", value |-> 0]
    /\ UNCHANGED <<exchange, shmExists, procs, macVars, wpc, argvW, argi, exitcode,
                   executed, noAutostart, ctxSet, handlerOn, evtExit, svcStatus,
                   config, wlaunch, wstatus, wwaited, ctrl, twrites, tlate>>

\* the space key: the test client ends
TestQuit ==
    /\ tpc = "getch"
    /\ tpc' = "exited"
    /\ UNCHANGED <<exchange, shmExists, procs, macVars, wpc, argvW, argi, exitcode,
                   executed, noAutostart, ctxSet, handlerOn, evtExit, svcStatus,
                   config, wlaunch, wstatus, wwaited, ctrl, tseen, twrites, tlate>>

\* the positions inside for (;;) of svc_main
WinLoopPcs ==
    {"swap_launch", "incr", "config_read", "kill", "launch_backend",
     "status_launch", "set_status", "wait"}

OneShot == Tmain \/ TmainArg

Service ==
    \/ SvcMain \/ CreateMap \/ ZeroMemory \/ RegisterHandler \/ DataDir
    \/ WinSetSize \/ ConfigRead0 \/ CreateEvent \/ Running
    \/ SwapLaunch \/ WinIncrCycles \/ ConfigRead \/ WinKill \/ WinLaunchBackend
    \/ StatusLaunch \/ SetStatus \/ Wait \/ Detect \/ ShutdownWait \/ WinCleanup

Scm == \E c \in Controls : ctrl_handler(c)

TestClient == TestOpen \/ TestStore \/ TestRead \/ TestCompare \/ TestQuit

\* no Mac program runs
MacNone ==
    /\ pc = "none"
    /\ kill = 0
    /\ launch = 0
    /\ srcPid = 0
    /\ exchgLaunch = 0
    /\ cfg = cfgDefault
    /\ retries = KILL_WAIT_RETRIES
    /\ killCaller = "startup"
    /\ killRet = RET_SUCCESS
    /\ ret = RET_ERROR
    /\ waited = 0
    /\ attempt = 0
    /\ terminate = FALSE
    /\ sigterm = FALSE
    /\ argv2 = "none"
    /\ argv3 = 0
    /\ cfgFile = NoCfgFile
    /\ shlGlobal = FALSE
    /\ sysctlFails = FALSE
    /\ exeExists = TRUE
    /\ plistExists = FALSE
    /\ staleRegion = "none"
    /\ argv1 = "none"
    /\ chandle = [c \in Clients |-> "gone"]
    /\ cyc0 = [c \in Clients |-> 0]
    /\ cdo = [c \in Clients |-> 0]
    /\ writes = 0
    /\ lastKill = [noKillPid |-> 0, err |-> 0, pids |-> {}, result |-> 0]
    /\ launchIntact = TRUE
    /\ wordWriter = 0
    /\ srcWriter = 0
    /\ writtenThisIter = FALSE

\* a call of the Windows program, with or without arguments, and a test
\* client
InitWin ==
    /\ MacNone
    /\ exchange = ZeroExchange
    /\ shmExists = FALSE
    /\ procs \in {{ownPid} \cup S : S \in SUBSET (BackendPids \cup OldPids)}
    /\ stubborn \in SUBSET OldPids
    /\ wpc = "tmain"
    /\ argvW \in ArgLists
    /\ argi = 0
    /\ exitcode = 0
    /\ executed = <<>>
    /\ noAutostart \in BOOLEAN
    /\ ctxSet = FALSE
    /\ handlerOn = FALSE
    /\ evtExit = "null"
    /\ svcStatus = "none"
    /\ config = [autoStart |-> FALSE, backend |-> FALSE]
    /\ wlaunch = 0
    /\ wstatus = 0
    /\ wwaited = 0
    /\ ctrl = "none"
    /\ tpc = "main"
    /\ tseen = [field |-> "none", value |-> 0]
    /\ twrites = 0
    /\ tlate = FALSE

NextWin == OneShot \/ Service \/ Scm \/ TestClient \/ WinBackendAck

SpecWin == InitWin /\ [][NextWin]_vars

\* the service from the call of svc_main by the dispatcher on, scheduled
\* fairly, with a test client that is scheduled fairly too
InitWinLive ==
    /\ MacNone
    /\ exchange = ZeroExchange
    /\ shmExists = FALSE
    /\ procs \in {{ownPid} \cup S : S \in SUBSET BackendPids}
    /\ stubborn = {}
    /\ wpc = "svc_main"
    /\ argvW = <<>>
    /\ argi = 0
    /\ exitcode = 0
    /\ executed = <<>>
    /\ noAutostart = FALSE
    /\ ctxSet = FALSE
    /\ handlerOn = FALSE
    /\ evtExit = "null"
    /\ svcStatus = "none"
    /\ config = [autoStart |-> FALSE, backend |-> FALSE]
    /\ wlaunch = 0
    /\ wstatus = 0
    /\ wwaited = 0
    /\ ctrl = "none"
    /\ tpc = "main"
    /\ tseen = [field |-> "none", value |-> 0]
    /\ twrites = 0
    /\ tlate = FALSE

ScmStop == ctrl_handler("STOP")

NextWinLive == Service \/ ScmStop \/ TestClient \/ WinBackendAck

SpecWinLive ==
    InitWinLive /\ [][NextWinLive]_vars /\ WF_vars(Service) /\ WF_vars(TestClient)

\* either Supervisor: the Mac one with a frontend, or the Windows service
\* with the test client
InitBoth == InitFront \/ InitWinLive

NextBoth == NextFront \/ NextWinLive

SpecBoth == InitBoth /\ [][NextBoth]_vars

(***************************************************************************)
(* The two loads of the configuration taken alone: cfg_load and            *)
(* config_read applied to every content of the file, and the file edited   *)
(* or deleted between two loads.                                           *)
(***************************************************************************)
InitCfg ==
    /\ exchange = ZeroExchange
    /\ shmExists = FALSE
    /\ procs = {}
    /\ stubborn = {}
    /\ pc = "cfg_load_alone"
    /\ kill = 0
    /\ launch = 0
    /\ srcPid = 0
    /\ exchgLaunch = 0
    /\ cfg = cfgDefault
    /\ retries = KILL_WAIT_RETRIES
    /\ killCaller = "startup"
    /\ killRet = RET_SUCCESS
    /\ ret = RET_ERROR
    /\ waited = 0
    /\ attempt = 0
    /\ terminate = FALSE
    /\ sigterm = FALSE
    /\ argv2 = "none"
    /\ argv3 = 0
    /\ cfgFile \in AllCfgFiles
    /\ shlGlobal = FALSE
    /\ sysctlFails = FALSE
    /\ exeExists = TRUE
    /\ plistExists = FALSE
    /\ staleRegion = "none"
    /\ argv1 = "none"
    /\ chandle = [c \in Clients |-> "gone"]
    /\ cyc0 = [c \in Clients |-> 0]
    /\ cdo = [c \in Clients |-> 0]
    /\ writes = 0
    /\ lastKill = [noKillPid |-> 0, err |-> 0, pids |-> {}, result |-> 0]
    /\ launchIntact = TRUE
    /\ wordWriter = 0
    /\ srcWriter = 0
    /\ writtenThisIter = FALSE
    /\ wpc = "config_read_alone"
    /\ argvW = <<>>
    /\ argi = 0
    /\ exitcode = 0
    /\ executed = <<>>
    /\ noAutostart = FALSE
    /\ ctxSet = FALSE
    /\ handlerOn = FALSE
    /\ evtExit = "null"
    /\ svcStatus = "none"
    /\ config = [autoStart |-> FALSE, backend |-> FALSE]
    /\ wlaunch = 0
    /\ wstatus = 0
    /\ wwaited = 0
    /\ ctrl = "none"
    /\ tpc = "none"
    /\ tseen = [field |-> "none", value |-> 0]
    /\ twrites = 0
    /\ tlate = FALSE

\* cfg_load(shl, &cfg)
CfgLoadAlone ==
    /\ pc = "cfg_load_alone"
    /\ cfg' = cfg_load(cfgFile)
    /\ pc' = "cfg_loaded"
    /\ UNCHANGED <<exchange, shmExists, procs, loopLocals, killLocals, ret, callLocals,
                   sigVars, envVars, cliVars, lastKill, histVars, extVars, winVars>>

\* config_read(ctx)
ConfigReadAlone ==
    /\ wpc = "config_read_alone"
    /\ config' = config_read(cfgFile)
    /\ wpc' = "config_loaded"
    /\ UNCHANGED <<exchange, shmExists, procs, macVars, argvW, argi, exitcode,
                   executed, noAutostart, ctxSet, handlerOn, evtExit, svcStatus,
                   wlaunch, wstatus, wwaited, ctrl, tpc, tseen, twrites, tlate>>

\* the file is edited or deleted; the next loads follow
CfgEdit ==
    /\ pc = "cfg_loaded"
    /\ wpc = "config_loaded"
    /\ cfgFile' \in AllCfgFiles \ {cfgFile}
    /\ pc' = "cfg_load_alone"
    /\ wpc' = "config_read_alone"
    /\ UNCHANGED <<exchange, shmExists, procs, supVars, sigVars, envVars, cliVars,
                   lastKill, histVars, sigterm, argv2, argv3, argvW, argi, exitcode,
                   executed, noAutostart, ctxSet, handlerOn, evtExit, svcStatus,
                   config, wlaunch, wstatus, wwaited, ctrl, tpc, tseen, twrites,
                   tlate>>

NextCfg == CfgLoadAlone \/ ConfigReadAlone \/ CfgEdit

SpecCfg == InitCfg /\ [][NextCfg]_vars

(***************************************************************************)
(* Properties.                                                             *)
(***************************************************************************)
\* the Supervisor is inside the body of the Control Loop, past cycles++
InLoopBody ==
    \/ pc \in {"access", "clear_kill", "cfg_load", "launch_backend",
               "clear_launch", "read_src", "read_launch"}
    \/ pc = "kill_pass" /\ killCaller = "loop"

\* C1: latch semantics.  At the end of every loop iteration (main is back at the
\* loop head) the launch word is 0 or was written by a client after that
\* iteration began: a word written earlier has been consumed by the end of
\* the next complete iteration.
C1_Latch ==
    (pc = "while" /\ ~terminate /\ exchange.launch # 0) => writtenThisIter

\* C2: atomic consumption.  Every non-zero word main reads from the Exchange
\* to act on is a whole word as a client's launch_do stored it, never the
\* remainder of a word of which the loop has cleared some bits.
C2_WholeWord ==
    [][(pc = "read_launch" /\ pc' = "while" /\ exchange.launch # 0)
         => launchIntact]_vars

\* C3: the source PID is excluded.  A pass of kill_old_processes that the
\* loop runs for a kill-first word written by a client never signals that
\* client.
C3_SourceNotKilled ==
    [][(pc = "kill_pass" /\ (pc' # pc \/ retries' # retries)
          /\ killCaller = "loop" /\ srcWriter # 0)
         => srcWriter \notin lastKill'.pids]_vars

\* C4: exclusion.  No pass of kill_old_processes signals the Supervisor's own
\* PID, its parent's PID or the PID passed as noKillPid.
C4_Exclusion ==
    lastKill.pids \cap {ownPid, parentPid, lastKill.noKillPid} = {}

\* C4 witness: a pass called with the PID of a running frontend, with the
\* parent in the table under a family name, that signalled somebody else.
C4_Witness ==
    /\ lastKill.noKillPid \in Clients
    /\ {lastKill.noKillPid, ownPid, parentPid} \subseteq procs
    /\ lastKill.pids # {}

\* C5 as stated: a valid size implies a non-zero heartbeat, in every state.
C5_ReadinessAlways ==
    exchange.size = ExchangeSize => exchange.cycles > 0

\* C5 as amended: a non-zero heartbeat implies a valid size, and from the
\* first cycles++ of the Control Loop on the size is valid and the heartbeat
\* is non-zero; size is stored before the loop, so until that first increment
\* the size is valid while cycles is 0.
C5_Readiness ==
    /\ exchange.cycles > 0 => exchange.size = ExchangeSize
    /\ InLoopBody => (exchange.size = ExchangeSize /\ exchange.cycles > 0)

\* C5 witness: a frontend polls in launch_open while the loop body runs.
C5_Witness ==
    /\ InLoopBody
    /\ exchange.size = ExchangeSize
    /\ \E c \in Clients : chandle[c] = "polling"

\* C6: launch_open returns a handle only if the size is valid and cycles has
\* advanced from the value read first.
C6_OpenNeedsBoth ==
    [][\A c \in Clients :
         (chandle[c] = "polling" /\ chandle'[c] = "open")
           => (exchange.size = ExchangeSize /\ exchange.cycles # cyc0[c])]_vars

C8_DeniedLaunch ==
    [][(pc = "clear_launch" /\ pc' = "read_src" /\ ~cfg.backend)
         => /\ AndLaunchMask(exchange'.launch) = 0
            /\ exchange'.status = 0
            /\ procs' = procs]_vars

\* C9: spawn failure.  A launch_backend that gave no child leaves status 0.
C9_SpawnFailure ==
    [][(pc = "launch_backend" /\ pc' = "clear_launch" /\ procs' = procs)
         => exchange'.status = 0]_vars

C11_ShutdownWrites ==
    /\ []((shmExists /\ pc \notin {"wait_for_backend_exit", "cleanup"})
            => exchange.shutdown = 0)
    /\ [][exchange'.shutdown # exchange.shutdown
            => \/ pc = "swap_shutdown" /\ exchange'.shutdown = 1
               \/ exchange'.shutdown = 0 /\ UNCHANGED <<pc, supVars, cliVars>>]_vars

\* C11 witness: a backend has cleared the flag the Supervisor set, while a
\* frontend holds a handle.
C11_Witness ==
    /\ pc = "wait_for_backend_exit"
    /\ exchange.shutdown = 0
    /\ \E c \in Clients : chandle[c] = "open"

\* C12: graceful stop terminates.  Once main has left the loop it stores
\* shutdown, waits no longer than SHUTDOWN_WAIT_SECS and ends with the segment
\* removed and exit code 0, whether or not the family processes ended and
\* whether or not the process listing failed.
C12_GracefulStop ==
    /\ (pc = "swap_shutdown")
         ~> (pc = "exited" /\ ret = RET_SUCCESS /\ ~shmExists)
    /\ [](waited <= SHUTDOWN_WAIT_SECS)
    /\ [][(pc = "wait_for_backend_exit" /\ pc' = "cleanup")
            => ret' = RET_SUCCESS]_vars

\* C12 witness: the wait has reached its cap with a backend still running.
C12_Witness ==
    /\ pc = "wait_for_backend_exit"
    /\ terminate
    /\ waited = SHUTDOWN_WAIT_SECS
    /\ procs \cap BackendPids # {}

\* the step of main that finds its executable gone
ExeGoneStep == pc = "access" /\ ~exeExists'

FirstIterationDone == pc = "read_src" /\ exchange.cycles = 1

C15_Heartbeat ==
    [][/\ exchange'.cycles # exchange.cycles
            => (pc = "incr" /\ exchange'.cycles = exchange.cycles + 1)
       /\ exchange'.cycles >= exchange.cycles
       /\ (pc = "while" /\ pc' # pc) => pc' \in {"incr", "swap_shutdown"}
       /\ (pc = "incr" /\ pc' # pc)
            => (pc' = "access" /\ exchange'.cycles = exchange.cycles + 1)
       /\ (pc' = "incr" /\ pc # pc') => pc = "while"]_vars

\* C15 witness: a frontend holds a handle while the second iteration runs.
C15_Witness ==
    /\ exchange.cycles = 2
    /\ InLoopBody
    /\ \E c \in Clients : chandle[c] = "open" /\ cdo[c] # 0

\* a step of kill_old_processes_and_wait: one pass and what follows it
KillPassStep == pc = "kill_pass" /\ (pc' # pc \/ retries' # retries)

\* the time the running kill_old_processes_and_wait has slept so far
KillWaitMillis == (KILL_WAIT_RETRIES - retries) * KILL_WAIT_MILLIS

\* C16 as stated: no loop iteration delays the next increment of cycles by
\* more than about one loop period, so the kill-and-wait of an iteration
\* sleeps no longer than one period.
C16_HeartbeatRate ==
    (pc = "kill_pass" /\ killCaller = "loop") => KillWaitMillis <= IDLE_MILLIS

\* C16 as amended: beyond its idle period an iteration sleeps only in
\* kill-and-wait: KILL_WAIT_MILLIS after every pass that found a process to
\* signal, none after a pass that found nothing, and never more than
\* KILL_WAIT_RETRIES times.
C16_IterationDelay ==
    /\ [](KillWaitMillis <= KILL_WAIT_RETRIES * KILL_WAIT_MILLIS)
    /\ [][/\ KillPassStep
               => IF lastKill'.pids = {}
                  THEN pc' # "kill_pass"
                  ELSE pc' # "kill_pass" \/ retries' = retries - 1
          /\ (InLoopBody /\ pc # "kill_pass") => (retries' = retries \/ pc' = "kill_pass")]_vars

\* C16 witness: the kill-and-wait of a loop iteration has slept twice.
C16_Witness ==
    /\ pc = "kill_pass"
    /\ killCaller = "loop"
    /\ KillWaitMillis >= 2 * KILL_WAIT_MILLIS

\* C17: size is written last.  In every state in which the size is valid,
\* dataDir and build are stored and processId is the PID of the Supervisor
\* that created the segment.
C17_SizeLast ==
    exchange.size = ExchangeSize
      => (exchange.identity /\ exchange.processId = ownPid)

\* C17 witness: a frontend polls in launch_open right after the store of size.
C17_Witness ==
    /\ pc = "set_shl"
    /\ exchange.size = ExchangeSize
    /\ \E c \in Clients : chandle[c] = "polling"

\* a step of a client call of the library
ClientStep == cliVars' # cliVars /\ pc' = pc /\ retries' = retries

\* C18: frame.  Once the size is valid no step changes size, processId,
\* dataDir or build; a step of a client call changes no field of the Exchange
\* but launch and launchProcessId and neither creates nor removes the
\* segment.
C18_Frame ==
    [][/\ exchange.size = ExchangeSize
            => /\ exchange'.size = exchange.size
               /\ exchange'.processId = exchange.processId
               /\ exchange'.identity = exchange.identity
       /\ ClientStep
            => /\ exchange' = [exchange EXCEPT
                                 !.launch = exchange'.launch,
                                 !.launchProcessId = exchange'.launchProcessId]
               /\ shmExists' = shmExists]_vars

\* C18 witness: a frontend has called launch_do and a frontend has ended,
\* with the segment and its identity fields in place.
C18_Witness ==
    /\ shmExists
    /\ exchange.size = ExchangeSize
    /\ exchange.processId = ownPid
    /\ exchange.launchProcessId \in Clients
    /\ exchange.launch # 0
    /\ \E c \in Clients : chandle[c] = "gone"

\* C19: Exchange lifecycle.  When the process has ended, the segment it
\* created is removed, whatever the path that led to the end.
C19_Lifecycle == pc = "exited" => ~shmExists

\* C19 witness: the process has ended after an initialization that failed
\* once the segment was created and attached.
C19_Witness ==
    /\ pc = "exited"
    /\ ret = RET_SUCCESS
    /\ exchange.size = 0
    /\ plistExists

C21_BuildTag ==
    /\ [][(pc = "main" /\ argv1 # "build")
            => /\ pc' = "exited"
               /\ ret' = IF argv1 = "none" THEN RET_ARGS_ERROR
                         ELSE RET_BUILD_MISMATCH
               /\ procs' = procs \ {ownPid}
               /\ UNCHANGED <<exchange, shmExists, staleRegion, plistExists,
                              lastKill, killRet>>]_vars
    /\ [](argv1 # "build"
            => /\ pc \in {"main", "exited"}
               /\ ~shmExists
               /\ lastKill.pids = {}
               /\ pc = "exited" => ret \in {RET_ARGS_ERROR, RET_BUILD_MISMATCH})

\* C21 witness: a call with another build tag has ended while a backend of an
\* earlier run and a stale segment are there and no descriptor is on disk.
C21_Witness ==
    /\ argv1 = "other"
    /\ pc = "exited"
    /\ ret = RET_BUILD_MISMATCH
    /\ procs \cap BackendPids # {}
    /\ staleRegion = "sized"
    /\ ~plistExists

\* C23: the retry budget of kill_old_processes_and_wait.  A call makes at
\* most KILL_WAIT_RETRIES passes of kill_old_processes; a pass that returns 0
\* ends the call with success; a pass that returns a non-zero count is
\* followed by the sleep and another pass while the budget lasts, and it ends
\* the call with RET_ERROR when it was the last pass of the budget.
C23_RetryBudget ==
    /\ [](retries \in 1..KILL_WAIT_RETRIES)
    /\ [][KillPassStep
            => IF lastKill'.result = 0
               THEN pc' # "kill_pass" /\ killRet' = RET_SUCCESS
               ELSE IF retries = 1
                    THEN pc' # "kill_pass" /\ killRet' = RET_ERROR
                    ELSE /\ pc' = "kill_pass"
                         /\ retries' = retries - 1
                         /\ killRet' = killRet]_vars

\* C23 witness: the kill-and-wait run at the start has used up its budget
\* on a process that does not go away.
C23_Witness ==
    /\ pc = "exchange_open"
    /\ killRet = RET_ERROR
    /\ lastKill.pids \cap procs # {}

\* C27: kill-first launch ordering.  When main spawns a backend for a word
\* of a client that had the kill-first bit and a launch code, none of the
\* processes the kill-and-wait of that iteration signalled last is still
\* running.
C27_KillBeforeSpawn ==
    [][(/\ pc = "launch_backend" /\ pc' = "clear_launch" /\ procs' # procs
        /\ kill # 0 /\ launch # 0 /\ srcWriter # 0)
         => lastKill.pids \cap procs = {}]_vars

\* C28: enumeration failure in a kill pass.  A pass of kill_old_processes
\* whose process enumeration failed while processes to be killed are running
\* does not end kill_old_processes_and_wait with success: another pass
\* follows, or the budget is used up and the call returns RET_ERROR.
C28_EnumFailure ==
    [][(/\ KillPassStep
        /\ lastKill'.err # 0
        /\ KillTargets(procs, lastKill'.noKillPid) # {})
         => (pc' = "kill_pass" \/ killRet' = RET_ERROR)]_vars

C29_IterationOrder ==
    [][/\ (pc = "while" /\ pc' # pc) => pc' \in {"incr", "swap_shutdown"}
       /\ (pc = "incr" /\ pc' # pc)
            => (pc' = "access" /\ exchange'.cycles = exchange.cycles + 1)
       /\ (pc = "access" /\ pc' # pc /\ exeExists')
            => pc' = IF kill # 0 THEN "kill_pass"
                     ELSE IF launch # 0 THEN "cfg_load" ELSE "read_src"
       /\ (pc = "kill_pass" /\ killCaller = "loop" /\ pc' # pc)
            => (pc' = "clear_kill" /\ exchange' = exchange)
       /\ (pc = "clear_kill" /\ pc' # pc)
            => /\ AndKillFirst(exchange'.launch) = 0
               /\ AndLaunchMask(exchange'.launch) = AndLaunchMask(exchange.launch)
               /\ pc' = IF launch # 0 THEN "cfg_load" ELSE "read_src"
       /\ (pc = "cfg_load" /\ pc' # pc)
            => /\ pc' = IF cfg'.backend THEN "launch_backend" ELSE "clear_launch"
               /\ exchange' = exchange
       /\ (pc = "launch_backend" /\ pc' # pc)
            => (pc' = "clear_launch" /\ exchange'.launch = exchange.launch)
       /\ (pc = "clear_launch" /\ pc' # pc)
            => /\ AndLaunchMask(exchange'.launch) = 0
               /\ AndKillFirst(exchange'.launch) = AndKillFirst(exchange.launch)
               /\ pc' = "read_src"
       /\ (procs' \cap BackendPids) \ procs # {} => pc = "launch_backend"
       /\ (exchange'.launch # exchange.launch /\ pc' # pc)
            => pc \in {"clear_kill", "clear_launch"}
       /\ (InLoopBody /\ <<kill, launch, srcPid>> # <<kill', launch', srcPid'>>)
            => pc \in {"read_src", "read_launch"}
       /\ (pc = "read_src" /\ pc' # pc) => pc' = "read_launch"
       /\ (pc = "read_launch" /\ pc' # pc) => pc' = "while"]_vars

\* C29 witness: an iteration run for a frontend's word with kill flag and
\* launch code is at its end; its kill-and-wait timed out and the
\* configuration denied the launch; the word is cleared.
C29_Witness ==
    /\ pc = "read_src"
    /\ srcWriter \in Clients
    /\ kill # 0
    /\ launch # 0
    /\ killRet = RET_ERROR
    /\ ~cfg.backend
    /\ exchange.launch = 0

\* the arguments of the call that are not options
C25_NonOpt == SelectSeq(argvW, LAMBDA a : a # "--opt")

\* what a finished one-shot call has done, by the claim
C25_Outcome ==
    LET k == Len(executed)
        n == Len(C25_NonOpt)
    IN /\ k <= n
       /\ \A j \in 1..k : executed[j][1] = C25_NonOpt[j] /\ executed[j][1] \in Commands
       /\ \A j \in 1..(k - 1) : executed[j][2] = 0
       /\ exitcode = IF k > 0 /\ executed[k][2] # 0 THEN executed[k][2]
                     ELSE IF k < n THEN EXITCODE_BAD_ARGS
                     ELSE EXITCODE_SUCCESS
       /\ (k < n /\ (k = 0 \/ executed[k][2] = 0)) => C25_NonOpt[k + 1] \notin Commands

\* the service has never been entered
C25_NoService ==
    /\ ~ctxSet
    /\ ~shmExists
    /\ svcStatus = "none"
    /\ exchange = ZeroExchange

\* C25 as stated: a call with at least one argument skips the options,
\* executes the commands from left to right until one returns non-zero,
\* yields 1 for an unknown command, ends with the first non-zero code (0 if
\* none) and never enters the service Control Loop.
C25_OneShotAlways ==
    Len(argvW) > 0 =>
        /\ wpc \in {"tmain", "tmain_args", "exited"}
        /\ C25_NoService
        /\ wpc = "exited" => C25_Outcome

\* C25 amended: the same once the path of the executable has been
\* determined; if GetModuleFileName fails the call ends with EXITCODE_ERROR
\* and no argument is looked at.
C25_OneShot ==
    Len(argvW) > 0 =>
        /\ wpc \in {"tmain", "tmain_args", "exited"}
        /\ C25_NoService
        /\ (wpc = "exited" /\ argi > 0) => C25_Outcome
        /\ (wpc = "exited" /\ argi = 0) =>
               exitcode = EXITCODE_ERROR /\ executed = <<>>

C25_Witness ==
    /\ wpc = "exited"
    /\ argvW = <<"--opt", "install">>
    /\ executed = <<<<"install", EXITCODE_SERVICE_ERROR, "unobserved">>>>
    /\ exitcode = EXITCODE_SERVICE_ERROR

\* C24: after the test client has stored a launch word, and as long as the
\* Supervisor stays in its Control Loop, the Exchange reaches launch == status
\* and the client's wait for the confirmation ends.
C24_Confirmation ==
    /\ (tpc = "waiting") ~> (exchange.launch = exchange.status \/ wpc \notin WinLoopPcs)
    /\ (tpc = "waiting") ~> (tpc = "getch" \/ wpc \notin WinLoopPcs)

C24_Witness ==
    /\ tpc = "waiting"
    /\ wpc = "wait"
    /\ exchange.launch = 0
    /\ exchange.status = LAUNCH_FLAG_KILL_FIRST + 1
    /\ ctrl = "none"

\* C26: once a STOP or a SHUTDOWN control is the last one handled, the
\* Control Loop is released: while the Supervisor is still in its loop the
\* exit event is signalled, so that the wait of the current iteration leaves
\* the loop for the stop phase.
C26_StopReleases ==
    (ctrl \in {"STOP", "SHUTDOWN"} /\ wpc \in WinLoopPcs) => evtExit = "set"

\* C22: the configuration is read again before each launch action and the
\* decision to spawn is taken on what that read returned.  Mac: the step
\* from cfg_load stores a configuration of the file and goes on to
\* launch_backend exactly if its backend item is on, and launch_backend is
\* reached from nowhere else.  Windows: launch_backend is reached only from
\* config_read of the same iteration, directly or through the kill, which
\* leaves the configuration alone, and it spawns only if the backend item of
\* that configuration is on.
C22_ConfigReread ==
    [][/\ (pc = "cfg_load" /\ pc' # pc) =>
             /\ \E file \in CfgFiles : cfg' = cfg_load(file)
             /\ pc' = "launch_backend" <=> cfg'.backend
       /\ (pc' = "launch_backend" /\ pc' # pc) => pc = "cfg_load"
       /\ (pc = "launch_backend" /\ procs' # procs) => cfg.backend
       /\ (wpc = "config_read" /\ wpc' # wpc) =>
             \E file \in WinCfgFiles : config' = config_read(file)
       /\ (wpc' = "launch_backend" /\ wpc' # wpc) => wpc \in {"config_read", "kill"}
       /\ (wpc' = "kill" /\ wpc' # wpc) => wpc = "config_read"
       /\ wpc = "kill" => config' = config
       /\ (wpc = "launch_backend" /\ procs' # procs) => config.backend
      ]_vars

\* a launch command blocked by the configuration after an earlier one that
\* spawned
C22_Witness ==
    /\ pc = "clear_launch"
    /\ ~cfg.backend
    /\ launch # 0
    /\ exchange.status = 1

\* C31: no SIGTERM that arrived after the handler was installed is lost:
\* whenever one has arrived and the Supervisor is at the test of its Control
\* Loop, the terminate flag is set, so that the loop is left.
C31_NeverLost == (sigterm /\ pc = "while") => terminate

\* a step of main that spawns a backend or runs a pass of kill_old_processes
C32_Acts ==
    \/ pc = "launch_backend" /\ pc' # pc /\ procs' # procs
    \/ pc = "kill_pass" /\ lastKill' # lastKill
    \/ pc = "kill_pass" /\ pc' # pc
    \/ pc = "kill_pass" /\ retries' # retries

\* main has left the Control Loop
C32_Stopping == pc \in {"swap_shutdown", "wait_for_backend_exit", "cleanup"}

\* C32 as stated: once the terminate flag is set the Supervisor spawns no
\* backend and runs no kill pass any more.
C32_NoActionAfterFlag == [][terminate => ~C32_Acts]_vars

\* C32 as amended: the loop test that finds the terminate flag set leaves
\* the loop; from then on the Supervisor spawns no backend, runs no kill
\* pass and does not touch the launch word, so that a pending word stays
\* unprocessed.  An iteration that is under way when the flag is set is
\* completed first.
C32_NoActionAfterStop ==
    [][/\ (pc = "while" /\ terminate /\ pc' # pc) => pc' = "swap_shutdown"
       /\ C32_Stopping => ~C32_Acts
       /\ (C32_Stopping /\ (pc' # pc \/ waited' # waited))
             => exchange'.launch = exchange.launch
      ]_vars

\* a launch word is pending when main has left the loop
C32_Witness ==
    /\ pc = "swap_shutdown"
    /\ terminate
    /\ AndLaunchMask(exchange.launch) # 0

\* C33: a launch word a client stored after size was published leaves
\* exchange.launch only through the exchange at the top of a loop iteration,
\* which hands it to the iteration, or through the next store of the client.
C33_NoOverwrite ==
    [][(tlate /\ exchange'.launch # exchange.launch)
         => \/ wpc = "swap_launch" /\ wpc' = "incr" /\ wlaunch' = exchange.launch
            \/ twrites' # twrites]_vars

\* C34: single Supervisor.  While an earlier Supervisor instance is still
\* alive, the starting instance has created no Exchange and is not in the
\* Control Loop.
C34_SingleSupervisor ==
    OldSupervisor \in procs => (~shmExists /\ pc # "while" /\ ~InLoopBody)

\* C35: status tracks whether a launched backend exists.  status is 0 or 1,
\* and when main has processed a kill-only command (kill-first bit, launch
\* code zero) status is 0.
C35_StatusTracks ==
    /\ exchange.status \in {0, 1}
    /\ (pc = "read_src" /\ kill # 0 /\ launch = 0) => exchange.status = 0

\* C36: activation.  A call with --activate goes through the descriptor
\* write, the kill of the family processes, the reset of a stale Exchange
\* and the data directory, in this order; it never signals the process
\* named on the command line, never creates an Exchange and never enters
\* the Control Loop; and when it ends with exit code 0, no Exchange region
\* is registered under the key and no family process but the excluded ones
\* is running.
C36_Activation ==
    argv2 = "--activate" =>
        /\ pc \in {"main", "activate", "kill_pass", "activate_killed",
                   "activate_reset", "activate_datadir", "cleanup", "exited"}
        /\ ~shmExists
        /\ argv3 \notin lastKill.pids
        /\ pc \in {"activate_reset", "activate_datadir"} => plistExists
        /\ (pc = "exited" /\ ret = RET_SUCCESS) =>
              /\ staleRegion = "none"
              /\ procs \subseteq {parentPid, argv3}

\* the configuration the defaults and the lines of the file give
C37_Expected ==
    [autoStart |-> cfgFile.autostart = "TRUE",
     backend   |-> cfgFile.backend # "FALSE"]

\* C37: config defaults.  What a load returns depends on the file alone: a
\* key without a line, and so every key of a missing file, has its default,
\* autoStart FALSE and backend TRUE, whatever the other key is and whatever
\* the load before returned; after the file is deleted the next load
\* permits the launch.
C37_Defaults ==
    /\ pc = "cfg_loaded" => cfg = C37_Expected
    /\ wpc = "config_loaded" => config = C37_Expected
    /\ (pc = "cfg_loaded" /\ cfgFile = NoCfgFile) => cfg.backend
    /\ (wpc = "config_loaded" /\ cfgFile = NoCfgFile) => config.backend

\* the file is gone: cfg_load has permitted the launch again, while
\* ctx->config still holds what the load before read in the file,
\* autostart TRUE and backend FALSE
C37_Witness ==
    /\ pc = "cfg_loaded"
    /\ wpc = "config_read_alone"
    /\ cfgFile = NoCfgFile
    /\ cfg = cfgDefault
    /\ config = [autoStart |-> TRUE, backend |-> FALSE]

\* C38: missing data directory at startup.  Whatever svc_main finds when it
\* looks for the data directory, it goes on towards the Running loop: the
\* step never takes the way out of the service.
C38_StartsAnyway == [][wpc = "data_dir" => wpc' # "cleanup"]_vars

\* C39: exit code of start.  For every start command _tmain has called:
\* the code is 0 only if the service runs after the call, started by it or
\* running before; it is not 0 when the service exists and StartService
\* fails for another reason; it is the service-missing code when the
\* service does not exist.
C39_StartCode ==
    \A j \in 1..Len(executed) :
        executed[j][1] = "start" =>
            /\ executed[j][2] = EXITCODE_SUCCESS
                  => executed[j][3] \in {"started", "already running"}
            /\ executed[j][3] = "not started" => executed[j][2] # EXITCODE_SUCCESS
            /\ executed[j][3] = "no service" => executed[j][2] = EXITCODE_SERVICE_MISSING

\* C40: stopping on Windows.  Every stop, with or without a backend process
\* found by the enumeration, leaves the Control Loop by setting shutdown to
\* 1 and waiting for it; the wait lasts no more than
\* SHUTDOWN_SIGNAL_TIMOUT_SECS polls and one, and what follows it is the
\* teardown.
C40_Stopping ==
    [][/\ (wpc = "detect" /\ wpc' # "detect")
            => (exchange'.shutdown = 1 /\ wpc' = "shutdown_wait")
       /\ wpc = "shutdown_wait"
            => /\ wwaited <= SHUTDOWN_SIGNAL_TIMOUT_SECS + 1
               /\ wpc' \in {"shutdown_wait", "cleanup"}]_vars
====
